---- MODULE Spec2Model ----
(***************************************************************************)
(* vim-craft: the tokenizer adapter (PrismVimHighlighter), the token model *)
(* (VimToken / ComplexVimToken) and the effect engine                      *)
(* (VisualEffectsProcessor) as state machines.                             *)
(*                                                                         *)
(* Text is a sequence of one-character strings; offsets are 0-based as in  *)
(* the source, sequence indices are 1-based.                               *)
(***************************************************************************)
EXTENDS Integers, Sequences, FiniteSets, TLC

VARIABLES
  pc,           \* position of the call: "ready" before it, "done" after it
  code,         \* the source text
  before,       \* the token objects handed to the effect engine, as they were at the call
  tokens,       \* the same token objects after the call (the engine may write to them)
  result,       \* the sequence the effect engine returned
  op,           \* the call that was made
  prism,        \* tokenizer collaborator: availability and its output for `code`
  vimTokens,    \* what tokenize(code) returned
  rendered,     \* the markup a renderer returned
  heap,         \* the class-list arrays of the tokens of a copy call, by reference
  page          \* the page: the Prism global, the document head, the loaders, the handler

vars == <<pc, code, before, tokens, result, op, prism, vimTokens, rendered, heap, page>>

(***************************************************************************)
(* Bounds                                                                  *)
(***************************************************************************)
MaxLen == 3          \* longest text handed to the effect engine
MaxFxNodes == 2      \* most tokenizer nodes behind the tokens handed to the effect engine
MaxCode == 2         \* longest text handed to the tokenizer adapter
MaxNodes == 3        \* most nodes in one tokenizer output
MaxRenderLen == 2    \* longest content of a recursive token handed to its renderers
MaxRenderNodes == 3  \* most nodes in the nested structure handed to the renderers

Chars == {"a", "\n"}

Min(S) == CHOOSE x \in S : \A y \in S : x <= y
Max2(a, b) == IF a >= b THEN a ELSE b
Min2(a, b) == IF a <= b THEN a ELSE b

RECURSIVE Texts(_)
Texts(n) == IF n = 0 THEN {<< >>}
            ELSE {<< >>} \cup {<<c>> \o t : c \in Chars, t \in Texts(n - 1)}

\* the texts over an alphabet, up to length n
RECURSIVE TextsOver(_, _)
TextsOver(alphabet, n) ==
  IF n = 0 THEN {<< >>}
  ELSE {<< >>} \cup {<<c>> \o t : c \in alphabet, t \in TextsOver(alphabet, n - 1)}

RECURSIVE Concat(_)
Concat(ss) == IF ss = << >> THEN << >> ELSE Head(ss) \o Concat(Tail(ss))

(***************************************************************************)
(* JavaScript string primitives                                            *)
(***************************************************************************)
Clamp(i, n) == IF i < 0 THEN 0 ELSE IF i > n THEN n ELSE i

\* String.prototype.substring(a, b): both ends clamped to [0, length], swapped if a > b
substring(v, a, b) ==
  LET ca == Clamp(a, Len(v))
      cb == Clamp(b, Len(v))
      lo == Min2(ca, cb)
      hi == Max2(ca, cb)
  IN SubSeq(v, lo + 1, hi)

\* String.prototype.substring(a): to the end of the string
substringFrom(v, a) == substring(v, a, Len(v))

\* String.prototype.charAt(i): '' when i is out of range
charAt(v, i) == IF i >= 0 /\ i < Len(v) THEN <<v[i + 1]>> ELSE << >>

\* Array.prototype.splice(i, del, ...items) on a copy, i 0-based
splice(arr, i, del, items) ==
  SubSeq(arr, 1, i) \o items \o SubSeq(arr, i + del + 1, Len(arr))

(***************************************************************************)
(* Token model (VimToken, ComplexVimToken)                                 *)
(***************************************************************************)
\* the absent nested structure of a flat token
NoStructure == [kind |-> "none", type |-> "", text |-> << >>, kids |-> << >>]

\* new VimToken(type, value, start, end): effect fields inactive, no classes.
\* src is the identity of the object: k > 0 for the k-th object handed to the
\* engine, 0 for an object created during the call.
VimToken(type, value, start, end) ==
  [type |-> type, value |-> value, start |-> start, end |-> end,
   cursor |-> "null", selected |-> FALSE, isLastSelectedChar |-> FALSE,
   prismClasses |-> << >>,
   isComplex |-> FALSE, noSplit |-> FALSE, nestedStructure |-> NoStructure,
   preRenderedHtml |-> << >>,
   hasPartialCursor |-> FALSE, partialCursorPosition |-> 0, partialCursorClass |-> "null",
   hasPartialSelection |-> FALSE, partialSelectionStart |-> 0, partialSelectionEnd |-> 0,
   partialLastSelectedPosition |-> 0,
   src |-> 0]

\* VimToken.copy(newType, newValue, newStart, newEnd): a fresh VimToken that
\* keeps the classes; own properties of the source (canBeSplit, isComplex)
\* are not carried over
copy(token, newType, newValue, newStart, newEnd) ==
  [VimToken(newType, newValue, newStart, newEnd) EXCEPT
     !.prismClasses = token.prismClasses,
     !.cursor = "null", !.selected = FALSE, !.isLastSelectedChar = FALSE]

(***************************************************************************)
(* Tokenizer nodes.  A node of the external tokenizer's output is          *)
(*   kind "string" : a plain string leaf (text)                            *)
(*   kind "text"   : a typed node whose content is a string (text)         *)
(*   kind "array"  : a typed node whose content is an array (kids)         *)
(*   kind "object" : a typed node whose content is one nested node (kids)  *)
(*   kind "none"   : a typed node whose content is null or undefined       *)
(***************************************************************************)
StringLeaf(t) == [kind |-> "string", type |-> "", text |-> t, kids |-> << >>]
TextNode(ty, t) == [kind |-> "text", type |-> ty, text |-> t, kids |-> << >>]
ArrayNode(ty, ks) == [kind |-> "array", type |-> ty, text |-> << >>, kids |-> ks]
ObjectNode(ty, k) == [kind |-> "object", type |-> ty, text |-> << >>, kids |-> <<k>>]
NullNode(ty) == [kind |-> "none", type |-> ty, text |-> << >>, kids |-> << >>]

\* ['token', type] as built by the renderers and by the adapter
nodeClasses(structure) ==
  <<"token">> \o (IF structure.type # "" THEN <<structure.type>> ELSE << >>)

(***************************************************************************)
(* Markup.  An HTML string is a sequence of items: an opening span with    *)
(* its class list, a closing span, or the escaped form of one character.   *)
(***************************************************************************)
Open(classes) == [k |-> "open", classes |-> classes, s |-> ""]
Close == [k |-> "close", classes |-> << >>, s |-> ""]
Txt(s) == [k |-> "txt", classes |-> << >>, s |-> s]

\* escapeHtml of one character (div.textContent -> div.innerHTML)
escapeHtml(c) ==
  IF c = "&" THEN "&amp;" ELSE IF c = "<" THEN "&lt;" ELSE IF c = ">" THEN "&gt;" ELSE c

RECURSIVE calculateContentLength(_)
RECURSIVE sumContentLength(_)
\* ComplexVimToken.calculateContentLength
calculateContentLength(item) ==
  IF item.kind \in {"string", "text"} THEN Len(item.text)
  ELSE IF item.kind = "array" THEN sumContentLength(item.kids)
  ELSE 0
sumContentLength(items) ==
  IF items = << >> THEN 0
  ELSE calculateContentLength(Head(items)) + sumContentLength(Tail(items))

\* the character loop of renderTokenStructureWithCursor over a string that
\* starts at currentPos; returns the markup and the cursorApplied flag
RECURSIVE cursorChars(_, _, _, _, _)
cursorChars(str, cursorPosition, cursorClass, currentPos, applied) ==
  IF str = << >> THEN [html |-> << >>, applied |-> applied]
  ELSE LET hit == currentPos = cursorPosition /\ ~applied
           rest == cursorChars(Tail(str), cursorPosition, cursorClass, currentPos + 1,
                               applied \/ hit)
           one == IF hit THEN <<Open(<<cursorClass>>), Txt(escapeHtml(Head(str))), Close>>
                  ELSE <<Txt(escapeHtml(Head(str)))>>
       IN [html |-> one \o rest.html, applied |-> rest.applied]

\* a string at currentPos: the characters, then the zero-width insert marker
\* when the cursor sits exactly at the string's end
cursorString(str, cursorPosition, cursorClass, currentPos, applied) ==
  LET body == cursorChars(str, cursorPosition, cursorClass, currentPos, applied)
      stringEnd == currentPos + Len(str)
      atEnd == cursorPosition = stringEnd /\ cursorClass = "cursor-insert" /\ ~body.applied
  IN [html |-> body.html \o (IF atEnd THEN <<Open(<<cursorClass>>), Close>> ELSE << >>),
      applied |-> body.applied \/ atEnd]

RECURSIVE renderTokenStructureWithCursor(_, _, _, _, _)
RECURSIVE cursorItems(_, _, _, _, _)
\* ComplexVimToken.renderTokenStructureWithCursor
renderTokenStructureWithCursor(structure, cursorPosition, cursorClass, currentPos, applied) ==
  IF structure.kind = "string"
  THEN cursorString(structure.text, cursorPosition, cursorClass, currentPos, applied)
  ELSE LET inner == IF structure.kind = "text"
                    THEN cursorString(structure.text, cursorPosition, cursorClass,
                                      currentPos, applied)
                    ELSE IF structure.kind = "array"
                    THEN cursorItems(structure.kids, cursorPosition, cursorClass,
                                     currentPos, applied)
                    ELSE [html |-> << >>, applied |-> applied]
           tokenEnd == currentPos + calculateContentLength(structure)
           atEnd == cursorPosition = tokenEnd /\ cursorClass = "cursor-insert"
                    /\ ~inner.applied
       IN [html |-> <<Open(nodeClasses(structure))>> \o inner.html
                    \o (IF atEnd THEN <<Open(<<cursorClass>>), Close>> ELSE << >>)
                    \o <<Close>>,
           applied |-> inner.applied \/ atEnd]
\* the loop over an array content, pos advancing by calculateContentLength
cursorItems(items, cursorPosition, cursorClass, pos, applied) ==
  IF items = << >> THEN [html |-> << >>, applied |-> applied]
  ELSE LET first == renderTokenStructureWithCursor(Head(items), cursorPosition,
                                                   cursorClass, pos, applied)
           rest == cursorItems(Tail(items), cursorPosition, cursorClass,
                               pos + calculateContentLength(Head(items)), first.applied)
       IN [html |-> first.html \o rest.html, applied |-> rest.applied]

\* ComplexVimToken.renderWithPartialCursor (the token always carries the
\* nested structure it was built from)
renderWithPartialCursor_FromZero(token, cursorPosition, cursorClass) ==
  renderTokenStructureWithCursor(token.nestedStructure, cursorPosition, cursorClass,
                                 0, FALSE).html
renderWithPartialCursor(token, cursorPosition, cursorClass) ==
  renderTokenStructureWithCursor(token.nestedStructure, cursorPosition, cursorClass,
                                 token.start, FALSE).html

\* the character loop of renderTokenStructureWithSelection over a string that
\* starts at currentPos
selectionChars_DropsUnselected(str, selectionStart, selectionEnd, lastSelectedPosition, currentPos) ==
  Concat([i \in 1..Len(str) |->
            LET charPos == currentPos + (i - 1)
                escapedChar == Txt(escapeHtml(str[i]))
            IN IF charPos >= selectionStart /\ charPos < selectionEnd
               THEN IF charPos = lastSelectedPosition
                    THEN <<Open(<<"visual-block-cursor">>), escapedChar, Close>>
                    ELSE <<Open(<<"visual-selection">>), escapedChar, Close>>
               ELSE << >>])
selectionChars(str, selectionStart, selectionEnd, lastSelectedPosition, currentPos) ==
  Concat([i \in 1..Len(str) |->
            LET charPos == currentPos + (i - 1)
                escapedChar == Txt(escapeHtml(str[i]))
            IN IF charPos >= selectionStart /\ charPos < selectionEnd
               THEN IF charPos = lastSelectedPosition
                    THEN <<Open(<<"visual-block-cursor">>), escapedChar, Close>>
                    ELSE <<Open(<<"visual-selection">>), escapedChar, Close>>
               ELSE <<escapedChar>>])

RECURSIVE renderTokenStructureWithSelection(_, _, _, _, _)
RECURSIVE selectionItems(_, _, _, _, _)
\* ComplexVimToken.renderTokenStructureWithSelection
renderTokenStructureWithSelection(structure, selectionStart, selectionEnd, lastSelectedPosition, currentPos) ==
  IF structure.kind = "string"
  THEN selectionChars(structure.text, selectionStart, selectionEnd,
                      lastSelectedPosition, currentPos)
  ELSE LET content == IF structure.kind = "text"
                      THEN selectionChars(structure.text, selectionStart, selectionEnd,
                                          lastSelectedPosition, currentPos)
                      ELSE IF structure.kind = "array"
                      THEN selectionItems(structure.kids, selectionStart, selectionEnd,
                                          lastSelectedPosition, currentPos)
                      ELSE << >>
       IN <<Open(nodeClasses(structure))>> \o content \o <<Close>>
\* the loop over an array content, pos advancing by calculateContentLength
selectionItems(items, selectionStart, selectionEnd, lastSelectedPosition, pos) ==
  IF items = << >> THEN << >>
  ELSE renderTokenStructureWithSelection(Head(items), selectionStart, selectionEnd,
                                         lastSelectedPosition, pos)
       \o selectionItems(Tail(items), selectionStart, selectionEnd, lastSelectedPosition,
                         pos + calculateContentLength(Head(items)))

\* ComplexVimToken.renderWithPartialSelection: currentPos defaults to the
\* token's start
renderWithPartialSelection_FromZero(token, selectionStart, selectionEnd, lastSelectedPosition) ==
  renderTokenStructureWithSelection(token.nestedStructure, selectionStart, selectionEnd,
                                    lastSelectedPosition, 0)
renderWithPartialSelection(token, selectionStart, selectionEnd, lastSelectedPosition) ==
  renderTokenStructureWithSelection(token.nestedStructure, selectionStart, selectionEnd,
                                    lastSelectedPosition, token.start)

\* escapeHtml needs the document: without one, rendering throws as soon as it
\* reaches a character
rendererThrows(html, dom) == ~dom /\ \E i \in 1..Len(html) : html[i].k = "txt"

\* escapeHtml of a string, one item per character
escaped(text) == [k \in 1..Len(text) |-> Txt(escapeHtml(text[k]))]

RECURSIVE renderTokenStructure(_)
RECURSIVE renderItems(_)
\* ComplexVimToken.renderTokenStructure
renderTokenStructure(structure) ==
  IF structure.kind = "string" THEN escaped(structure.text)
  ELSE LET content == IF structure.kind = "text" THEN escaped(structure.text)
                      ELSE IF structure.kind = "array" THEN renderItems(structure.kids)
                      ELSE << >>
       IN <<Open(nodeClasses(structure))>> \o content \o <<Close>>
\* structure.content.map(item => this.renderTokenStructure(item)).join('')
renderItems(items) ==
  IF items = << >> THEN << >>
  ELSE renderTokenStructure(Head(items)) \o renderItems(Tail(items))

\* ComplexVimToken.renderNested: without a nested structure, the raw value
renderNested(token) ==
  IF token.nestedStructure = NoStructure
  THEN [k \in 1..Len(token.value) |-> Txt(token.value[k])]
  ELSE renderTokenStructure(token.nestedStructure)

\* ComplexVimToken.applyVimEffects: whole-token effects wrap the structure
applyVimEffects(token) ==
  LET vimClasses == (IF token.isLastSelectedChar THEN <<"visual-block-cursor">>
                     ELSE IF token.selected THEN <<"visual-selection">> ELSE << >>)
                    \o (IF token.cursor # "null" THEN <<token.cursor>> ELSE << >>)
  IN IF vimClasses # << >>
     THEN <<Open(vimClasses)>> \o renderNested(token) \o <<Close>>
     ELSE renderNested(token)

\* ComplexVimToken.applyCursorWithPosition
applyCursorWithPosition(token, cursorPosition, cursorClass) ==
  IF cursorPosition >= token.start /\ cursorPosition <= token.end
  THEN renderWithPartialCursor(token, cursorPosition, cursorClass)
  ELSE renderNested(token)

\* ComplexVimToken.applyVimEffectsWithPartialSelection
applyVimEffectsWithPartialSelection(token, selectionStart, selectionEnd, lastSelectedPosition) ==
  IF selectionStart < token.end /\ selectionEnd > token.start
  THEN renderWithPartialSelection(token, Max2(token.start, selectionStart),
                                  Min2(token.end, selectionEnd), lastSelectedPosition)
  ELSE renderNested(token)

(***************************************************************************)
(* Tokenizer adapter (PrismVimHighlighter)                                 *)
(***************************************************************************)
RECURSIVE extractTokenText(_)
RECURSIVE extractAll(_)
\* PrismVimHighlighter.extractTokenText: string content, or the joined text of
\* an array content; anything else yields ''
extractTokenText(token) ==
  IF token.kind \in {"string", "text"} THEN token.text
  ELSE IF token.kind = "array" THEN extractAll(token.kids)
  ELSE << >>
extractAll(items) ==
  IF items = << >> THEN << >>
  ELSE extractTokenText(Head(items)) \o extractAll(Tail(items))

alwaysPreserveTypes ==
  {"atrule", "url", "tag", "function", "selector", "property", "important", "rule"}

shouldPreserveStructure(token) ==
  IF token.kind = "string" \/ token.type = "" THEN FALSE
  ELSE IF token.type \in alwaysPreserveTypes THEN TRUE
  ELSE token.kind = "array"

\* VimToken.fromPrismToken for a typed node: the value is the content only
\* when the content is a string
fromPrismToken(prismToken, start, end) ==
  [VimToken(IF prismToken.type # "" THEN prismToken.type ELSE "text",
            IF prismToken.kind = "text" THEN prismToken.text ELSE << >>,
            start, end)
     EXCEPT !.prismClasses = IF prismToken.type # "" THEN nodeClasses(prismToken)
                             ELSE << >>]

\* new ComplexVimToken(type, value, start, end, prismToken, nestedStructure)
ComplexVimToken(type, value, start, end, nestedStructure) ==
  [VimToken(type, value, start, end) EXCEPT !.isComplex = TRUE,
                                            !.noSplit = TRUE,
                                            !.nestedStructure = nestedStructure]

\* processToken of convertPrismTokensToVim: the tokens one top-level node
\* contributes at currentPos (none when it is skipped)
processToken(token, currentPos) ==
  LET tokenText == extractTokenText(token)
      endPos == currentPos + Len(tokenText)
  IN IF token.kind = "string"
     THEN IF Len(token.text) > 0
          THEN <<VimToken(IF token.text = <<"\n">> THEN "newline" ELSE "text",
                          token.text, currentPos, currentPos + Len(token.text))>>
          ELSE << >>
     ELSE IF tokenText = << >> THEN << >>
     ELSE IF shouldPreserveStructure(token)
     THEN IF token.kind = "array"
          THEN <<[ComplexVimToken(IF token.type # "" THEN token.type ELSE "text",
                                  tokenText, currentPos, endPos, token)
                    EXCEPT !.prismClasses = IF token.type # "" THEN nodeClasses(token)
                                            ELSE << >>]>>
          ELSE <<[fromPrismToken(token, currentPos, endPos) EXCEPT !.noSplit = TRUE]>>
     ELSE <<fromPrismToken(token, currentPos, endPos)>>

\* the loop over the top-level nodes, position advancing by what each emitted
RECURSIVE convertLoop(_, _)
convertLoop(prismTokens, position) ==
  IF prismTokens = << >> THEN << >>
  ELSE LET emitted == processToken(Head(prismTokens), position)
           next == IF emitted = << >> THEN position ELSE emitted[1].end
       IN emitted \o convertLoop(Tail(prismTokens), next)

\* a conversion that forgets the text left after the last node
convertPrismTokensToVim_NoRemainder(prismTokens, originalCode) ==
  convertLoop(prismTokens, 0)

convertPrismTokensToVim(prismTokens, originalCode) ==
  LET converted == convertLoop(prismTokens, 0)
      position == IF converted = << >> THEN 0 ELSE converted[Len(converted)].end
  IN IF position < Len(originalCode)
     THEN converted \o <<VimToken("text", substringFrom(originalCode, position),
                                  position, Len(originalCode))>>
     ELSE converted

\* a fallback token that spans nothing
fallbackTokenize_NoSpan(c) == <<VimToken("text", c, 0, 0)>>

fallbackTokenize(c) == <<VimToken("text", c, 0, Len(c))>>

\* PrismVimHighlighter.ensurePrismLoaded: the value it leaves in useFallback.
\* defined: the Prism global exists; grammar: a grammar is found under the
\* language's name (for html also under markup, to which the language is
\* then switched)
ensurePrismLoaded(defined, grammar) ==
  IF ~defined THEN TRUE
  ELSE IF ~grammar THEN TRUE
  ELSE FALSE

\* PrismVimHighlighter.tokenize: p.useFallback is what ensurePrismLoaded left,
\* p.throws whether the tokenizer call throws, p.out what it returns
tokenize(c, p) ==
  IF p.useFallback THEN fallbackTokenize(c)
  ELSE IF p.throws THEN fallbackTokenize(c)
  ELSE convertPrismTokensToVim(p.out, c)

(***************************************************************************)
(* Effect engine (VisualEffectsProcessor)                                  *)
(***************************************************************************)
\* createToken(type, value, start, end, originalToken) with an original token
createTokenFrom(type, value, start, end, originalToken) ==
  copy(originalToken, type, value, start, end)

\* createToken(type, value, start, end) without an original token
createToken(type, value, start, end) == VimToken(type, value, start, end)

\* a split that keeps the cursor character only
splitTokenSimple_CursorOnly(token, position, cursorClass) ==
  <<[createTokenFrom(token.type, charAt(token.value, position - token.start),
                     position, position + 1, token)
       EXCEPT !.cursor = cursorClass]>>

splitTokenSimple(token, position, cursorClass) ==
  LET value == token.value
      relativePos == position - token.start
      beforeTok == IF relativePos > 0
                   THEN <<createTokenFrom(token.type, substring(value, 0, relativePos),
                                          token.start, token.start + relativePos, token)>>
                   ELSE << >>
      cursorTok == [createTokenFrom(token.type, charAt(value, relativePos),
                                    position, position + 1, token)
                      EXCEPT !.cursor = cursorClass]
      afterTok == IF relativePos < Len(value) - 1
                  THEN <<createTokenFrom(token.type, substringFrom(value, relativePos + 1),
                                         position + 1, token.end, token)>>
                  ELSE << >>
  IN IF relativePos < 0 \/ relativePos >= Len(value)
     THEN <<token>>
     ELSE beforeTok \o <<cursorTok>> \o afterTok

\* index (0-based) at which the standalone cursor goes: the first token that
\* starts after position, else the end
standaloneIndex(res, position) ==
  LET later == {i \in 1..Len(res) : res[i].start > position}
  IN IF later = {} THEN Len(res) ELSE Min(later) - 1

\* a standalone cursor that is never made
createStandaloneCursor_Skipped(res, position, cursorClass) == res

createStandaloneCursor(res, position, cursorClass) ==
  splice(res, standaloneIndex(res, position), 0,
         <<[createToken("cursor", << >>, position, position) EXCEPT !.cursor = cursorClass]>>)

createStandaloneInsertCursor(res, position, cursorClass) ==
  splice(res, standaloneIndex(res, position), 0,
         <<[createToken("cursor", << >>, position, position) EXCEPT !.cursor = cursorClass]>>)

\* the write-back of a successful character-level cursor rendering
markPartialCursor(token, renderedHtml, position, cursorClass) ==
  [token EXCEPT !.preRenderedHtml = renderedHtml,
                !.hasPartialCursor = TRUE,
                !.partialCursorPosition = position,
                !.partialCursorClass = cursorClass]

\* a cursor placed by an end-inclusive containment test
applySimpleCursor_EndInclusive(toks, position, cursorClass, dom) ==
  LET hits == {i \in 1..Len(toks) : toks[i].start < position /\ position <= toks[i].end}
  IN IF hits = {}
     THEN createStandaloneCursor(toks, position, cursorClass)
     ELSE splice(toks, Min(hits) - 1, 1,
                 splitTokenSimple(toks[Min(hits)], position, cursorClass))

applySimpleCursor(toks, position, cursorClass, dom) ==
  LET hits == {i \in 1..Len(toks) : toks[i].start <= position /\ position < toks[i].end}
  IN IF hits = {}
     THEN createStandaloneCursor(toks, position, cursorClass)
     ELSE LET i == Min(hits)
              token == toks[i]
              renderedHtml == renderWithPartialCursor(token, position, cursorClass)
          IN IF token.isComplex /\ ~rendererThrows(renderedHtml, dom)
             THEN [toks EXCEPT ![i] = markPartialCursor(token, renderedHtml, position,
                                                         cursorClass)]
             ELSE splice(toks, i - 1, 1, splitTokenSimple(token, position, cursorClass))

\* an insert split whose second half starts one character late
splitTokenForInsert_LateAfter(token, position, cursorClass) ==
  LET relativePos == position - token.start
  IN IF relativePos <= 0 \/ relativePos >= Len(token.value)
     THEN <<token>>
     ELSE <<createTokenFrom(token.type, substring(token.value, 0, relativePos),
                            token.start, position, token),
            [createToken("cursor", << >>, position, position) EXCEPT !.cursor = cursorClass],
            createTokenFrom(token.type, substringFrom(token.value, relativePos),
                            position + 1, token.end + 1, token)>>

splitTokenForInsert(token, position, cursorClass) ==
  LET value == token.value
      relativePos == position - token.start
      beforeToken == createTokenFrom(token.type, substring(value, 0, relativePos),
                                     token.start, token.start + relativePos, token)
      cursorToken == [createToken("cursor", << >>, position, position)
                        EXCEPT !.cursor = cursorClass]
      afterToken == createTokenFrom(token.type, substringFrom(value, relativePos),
                                    position, token.end, token)
  IN IF relativePos <= 0 \/ relativePos >= Len(value)
     THEN <<token>>
     ELSE <<beforeToken, cursorToken, afterToken>>

\* an insert cursor put on the character, as the normal-mode cursor is
applyInsertCursor_OnCharacter(toks, position, cursorClass, dom) ==
  applySimpleCursor(toks, position, cursorClass, dom)

applyInsertCursor(toks, position, cursorClass, dom) ==
  LET hits == {i \in 1..Len(toks) :
                 \/ toks[i].start < position /\ position < toks[i].end
                 \/ position = toks[i].start
                 \/ position = toks[i].end}
      cursorToken == [createToken("cursor", << >>, position, position)
                        EXCEPT !.cursor = cursorClass]
  IN IF hits = {}
     THEN createStandaloneInsertCursor(toks, position, cursorClass)
     ELSE LET i == Min(hits)
              token == toks[i]
              renderedHtml == renderWithPartialCursor(token, position, cursorClass)
          IN IF token.start < position /\ position < token.end
             THEN IF token.isComplex /\ ~rendererThrows(renderedHtml, dom)
                  THEN [toks EXCEPT ![i] = markPartialCursor(token, renderedHtml, position,
                                                              cursorClass)]
                  ELSE splice(toks, i - 1, 1,
                              splitTokenForInsert(token, position, cursorClass))
             ELSE IF position = token.start
             THEN splice(toks, i - 1, 0, <<cursorToken>>)
             ELSE splice(toks, i, 0, <<cursorToken>>)

\* shouldSplitComplexToken: always character-level precision
shouldSplitComplexToken(token, selectionStart, selectionEnd) == TRUE

applySelectionToComplexToken(token, selectionStart, selectionEnd, lastSelectedPosition) ==
  [token EXCEPT !.selected = TRUE,
                !.isLastSelectedChar =
                   IF lastSelectedPosition >= token.start /\ lastSelectedPosition < token.end
                   THEN TRUE ELSE token.isLastSelectedChar]

splitTokenForSelection(token, selectionStart, selectionEnd, lastSelectedPosition) ==
  LET value == token.value
      beforePart ==
        IF token.start < selectionStart
        THEN <<createTokenFrom(token.type, substring(value, 0, selectionStart - token.start),
                               token.start, selectionStart, token)>>
        ELSE << >>
      selectionStartInToken == Max2(0, selectionStart - token.start)
      selectionEndInToken == Min2(Len(value), selectionEnd - token.start)
      selectionValue == substring(value, selectionStartInToken, selectionEndInToken)
      actualSelectionStart == Max2(token.start, selectionStart)
      actualSelectionEnd == Min2(token.end, selectionEnd)
      lastCharRelativePos == lastSelectedPosition - actualSelectionStart
      beforeLast ==
        IF lastCharRelativePos > 0
        THEN <<[createTokenFrom(token.type, substring(selectionValue, 0, lastCharRelativePos),
                                actualSelectionStart,
                                actualSelectionStart + lastCharRelativePos, token)
                  EXCEPT !.selected = TRUE]>>
        ELSE << >>
      lastChar == charAt(selectionValue, lastCharRelativePos)
      lastCharPart ==
        IF lastChar # << >>
        THEN <<[createTokenFrom(token.type, lastChar, lastSelectedPosition,
                                lastSelectedPosition + 1, token)
                  EXCEPT !.selected = TRUE, !.isLastSelectedChar = TRUE]>>
        ELSE << >>
      remainingSelection == substringFrom(selectionValue, lastCharRelativePos + 1)
      afterLast ==
        IF remainingSelection # << >>
        THEN <<[createTokenFrom(token.type, remainingSelection, lastSelectedPosition + 1,
                                actualSelectionEnd, token)
                  EXCEPT !.selected = TRUE]>>
        ELSE << >>
      whole == <<[createTokenFrom(token.type, selectionValue, actualSelectionStart,
                                  actualSelectionEnd, token)
                    EXCEPT !.selected = TRUE]>>
      selectionPart ==
        IF selectionValue = << >> THEN << >>
        ELSE IF lastSelectedPosition >= actualSelectionStart
                /\ lastSelectedPosition < actualSelectionEnd
        THEN beforeLast \o lastCharPart \o afterLast
        ELSE whole
      afterPart ==
        IF token.end > selectionEnd
        THEN <<createTokenFrom(token.type, substringFrom(value, selectionEnd - token.start),
                               selectionEnd, token.end, token)>>
        ELSE << >>
  IN beforePart \o selectionPart \o afterPart

\* the write-back that asks the renderer for character-level selection
markPartialSelection(token, overlapStart, overlapEnd, lastSelectedPosition) ==
  [token EXCEPT !.hasPartialSelection = TRUE,
                !.partialSelectionStart = overlapStart,
                !.partialSelectionEnd = overlapEnd,
                !.partialLastSelectedPosition = lastSelectedPosition,
                !.selected = FALSE,
                !.isLastSelectedChar = FALSE]

\* the for loop of applySelection from index i (0-based) on
RECURSIVE selectionLoop(_, _, _, _)
selectionLoop(res, i, selectionStart, selectionEnd) ==
  IF i >= Len(res) THEN res
  ELSE
    LET token == res[i + 1]
        lastSelectedPosition == selectionEnd - 1
        overlapStart == Max2(token.start, selectionStart)
        overlapEnd == Min2(token.end, selectionEnd)
        overlaps == token.start < selectionEnd /\ token.end > selectionStart
                    /\ overlapStart < overlapEnd
        isEntireTokenSelected == overlapStart <= token.start /\ overlapEnd >= token.end
        newTokens == splitTokenForSelection(token, overlapStart, overlapEnd,
                                            lastSelectedPosition)
    IN IF ~overlaps
       THEN selectionLoop(res, i + 1, selectionStart, selectionEnd)
       ELSE IF token.isComplex
       THEN selectionLoop(
              [res EXCEPT ![i + 1] =
                 IF shouldSplitComplexToken(token, overlapStart, overlapEnd)
                 THEN markPartialSelection(token, overlapStart, overlapEnd,
                                           lastSelectedPosition)
                 ELSE applySelectionToComplexToken(token, overlapStart, overlapEnd,
                                                   lastSelectedPosition)],
              i + 1, selectionStart, selectionEnd)
       ELSE IF token.noSplit /\ isEntireTokenSelected
       THEN selectionLoop(
              [res EXCEPT ![i + 1] =
                 applySelectionToComplexToken(token, overlapStart, overlapEnd,
                                              lastSelectedPosition)],
              i + 1, selectionStart, selectionEnd)
       ELSE selectionLoop(splice(res, i, 1, newTokens),
                          i + Len(newTokens), selectionStart, selectionEnd)

\* a selection that reads an inverted range as the range between its ends
applySelection_SwapsRange(toks, selectionStart, selectionEnd) ==
  selectionLoop(toks, 0, Min2(selectionStart, selectionEnd),
                Max2(selectionStart, selectionEnd))

applySelection(toks, selectionStart, selectionEnd) ==
  IF selectionStart >= selectionEnd
  THEN toks
  ELSE selectionLoop(toks, 0, selectionStart, selectionEnd)

\* VisualEffectsProcessor.process: dispatch on the mode, unknown modes return
\* the tokens as they are
process(toks, mode, selectionStart, selectionEnd, dom) ==
  IF mode = "normal" THEN applySimpleCursor(toks, selectionStart, "cursor", dom)
  ELSE IF mode = "insert" THEN applyInsertCursor(toks, selectionStart, "cursor-insert", dom)
  ELSE IF mode = "visual" THEN applySelection(toks, selectionStart, selectionEnd)
  ELSE toks

\* the token objects of the caller after the call: an object still in the
\* returned sequence carries whatever the engine wrote to it
objectsAfter(toks, res) ==
  [k \in 1..Len(toks) |->
     IF \E j \in 1..Len(res) : res[j].src = k
     THEN res[CHOOSE j \in 1..Len(res) : res[j].src = k]
     ELSE toks[k]]

(***************************************************************************)
(* The selection of the second VisualEffectsProcessor (neovim-handler.js). *)
(* Its tokens carry content, type and cssClasses (value and prismClasses   *)
(* are aliases of content and cssClasses) and, once an effect split them,  *)
(* the markup of the fragment; only tokens that went through              *)
(* addPositionInfo have start and end.                                     *)
(***************************************************************************)
\* the token createToken builds for a token that has no copy method
Handler_VimToken(content, type, cssClasses, context) ==
  [content |-> content, type |-> type, cssClasses |-> cssClasses, context |-> context,
   cursor |-> "null", selected |-> FALSE, isLastSelectedChar |-> FALSE,
   originalHTML |-> << >>, src |-> 0]

\* the character escapes of generatePartialHTML
Handler_escape(c) ==
  IF c = "&" THEN "&amp;" ELSE IF c = "<" THEN "&lt;" ELSE IF c = ">" THEN "&gt;"
  ELSE IF c = "\"" THEN "&quot;" ELSE IF c = "'" THEN "&#39;" ELSE c

Handler_generatePartialHTML(content, originalToken) ==
  LET escapedContent == [k \in 1..Len(content) |-> Txt(Handler_escape(content[k]))]
  IN IF originalToken.type \notin {"", "text"} /\ Len(originalToken.cssClasses) > 0
     THEN <<Open(originalToken.cssClasses)>> \o escapedContent \o <<Close>>
     ELSE escapedContent

\* createToken(content, type, cssClasses, originalToken); an absent
\* originalHTML is the empty markup, which the code's tests cannot tell apart
Handler_createToken(content, type, cssClasses, originalToken) ==
  [Handler_VimToken(content, type, cssClasses, originalToken.context)
     EXCEPT !.originalHTML =
       IF originalToken.originalHTML # << >> /\ content # << >>
       THEN IF content = originalToken.content
            THEN originalToken.originalHTML
            ELSE Handler_generatePartialHTML(content, originalToken)
       ELSE IF originalToken.originalHTML = << >>
       THEN Handler_generatePartialHTML(content, originalToken)
       ELSE << >>]

\* addPositionInfo: fresh objects {...token, start, end}, numbered as the
\* objects handed on to the effect
RECURSIVE Handler_positions(_, _, _)
Handler_positions(toks, k, position) ==
  IF toks = << >> THEN << >>
  ELSE <<[start |-> position, end |-> position + Len(Head(toks).content)]
           @@ [Head(toks) EXCEPT !.src = k]>>
       \o Handler_positions(Tail(toks), k + 1, position + Len(Head(toks).content))
Handler_addPositionInfo(toks) == Handler_positions(toks, 1, 0)

Handler_splitTokenForSelection(token, selectionStart, selectionEnd, lastSelectedPosition) ==
  LET value == token.content
      beforePart ==
        IF token.start < selectionStart
        THEN <<Handler_createToken(substring(value, 0, selectionStart - token.start),
                                   token.type, token.cssClasses, token)>>
        ELSE << >>
      selectionStartInToken == Max2(0, selectionStart - token.start)
      selectionEndInToken == Min2(Len(value), selectionEnd - token.start)
      selectionValue == substring(value, selectionStartInToken, selectionEndInToken)
      actualSelectionStart == Max2(token.start, selectionStart)
      actualSelectionEnd == Min2(token.end, selectionEnd)
      lastCharRelativePos == lastSelectedPosition - actualSelectionStart
      selectedToken(content) ==
        [Handler_createToken(content, token.type, token.cssClasses, token)
           EXCEPT !.selected = TRUE]
      beforeLast ==
        IF lastCharRelativePos > 0
        THEN <<selectedToken(substring(selectionValue, 0, lastCharRelativePos))>>
        ELSE << >>
      lastChar == charAt(selectionValue, lastCharRelativePos)
      lastCharPart ==
        IF lastChar # << >>
        THEN <<[selectedToken(lastChar) EXCEPT !.isLastSelectedChar = TRUE]>>
        ELSE << >>
      remainingSelection == substringFrom(selectionValue, lastCharRelativePos + 1)
      afterLast ==
        IF remainingSelection # << >> THEN <<selectedToken(remainingSelection)>> ELSE << >>
      selectionPart ==
        IF selectionValue = << >> THEN << >>
        ELSE IF lastSelectedPosition >= actualSelectionStart
                /\ lastSelectedPosition < actualSelectionEnd
        THEN beforeLast \o lastCharPart \o afterLast
        ELSE <<selectedToken(selectionValue)>>
      afterPart ==
        IF token.end > selectionEnd
        THEN <<Handler_createToken(substringFrom(value, selectionEnd - token.start),
                                   token.type, token.cssClasses, token)>>
        ELSE << >>
  IN beforePart \o selectionPart \o afterPart

\* the for loop of the handler's applySelection from index i (0-based) on;
\* the index steps over the fragments it just put in
RECURSIVE Handler_selectionLoop(_, _, _, _)
Handler_selectionLoop(res, i, selectionStart, selectionEnd) ==
  IF i >= Len(res) THEN res
  ELSE
    LET token == res[i + 1]
        lastSelectedPosition == selectionEnd - 1
        overlapStart == Max2(token.start, selectionStart)
        overlapEnd == Min2(token.end, selectionEnd)
        newTokens == Handler_splitTokenForSelection(token, overlapStart, overlapEnd,
                                                    lastSelectedPosition)
    IN IF token.start < selectionEnd /\ token.end > selectionStart
          /\ overlapStart < overlapEnd
       THEN Handler_selectionLoop(splice(res, i, 1, newTokens), i + Len(newTokens),
                                  selectionStart, selectionEnd)
       ELSE Handler_selectionLoop(res, i + 1, selectionStart, selectionEnd)

Handler_applySelection(toks, selectionStart, selectionEnd) ==
  Handler_selectionLoop(toks, 0, selectionStart, selectionEnd)

(***************************************************************************)
(* Inputs: what the external tokenizer may return                          *)
(***************************************************************************)
\* one type the adapter flattens and one it always preserves
Types == {"keyword", "property"}
NestedTypes == {"keyword"}

AllKinds == {"string", "text", "array", "object", "none"}
RegularKinds == {"string", "text", "array"}

\* NodesOver(t, n, kinds, types): the nodes made of exactly n nodes, typed
\* from types at the top and from NestedTypes below, whose leaves, read left
\* to right, spell exactly t.  ForestsOver: sequences of them.
RECURSIVE NodesOver(_, _, _, _)
RECURSIVE ForestsOver(_, _, _, _)
NodesOver(t, n, kinds, types) ==
  IF n < 1 THEN {}
  ELSE (IF n = 1 /\ "string" \in kinds THEN {StringLeaf(t)} ELSE {})
       \cup (IF n = 1 /\ "text" \in kinds THEN {TextNode(ty, t) : ty \in types} ELSE {})
       \cup (IF n = 1 /\ t = << >> /\ "none" \in kinds
             THEN {NullNode(ty) : ty \in types} ELSE {})
       \cup (IF "array" \in kinds
             THEN {ArrayNode(ty, ks) : ty \in types,
                                       ks \in ForestsOver(t, n - 1, kinds, NestedTypes)}
             ELSE {})
       \cup (IF "object" \in kinds
             THEN {ObjectNode(ty, k) : ty \in types,
                                       k \in {x \in NodesOver(t, n - 1, kinds, NestedTypes) :
                                                x.kind # "string"}}
             ELSE {})
ForestsOver(t, n, kinds, types) ==
  IF n = 0 THEN (IF t = << >> THEN {<< >>} ELSE {})
  ELSE UNION {
         {<<x>> \o r : x \in NodesOver(SubSeq(t, 1, j), k, kinds, types),
                       r \in ForestsOver(SubSeq(t, j + 1, Len(t)), n - k, kinds, types)}
         : k \in 1..n, j \in 0..Len(t)}

\* every leaf character of a forest, read left to right (also those the
\* adapter cannot extract)
RECURSIVE flatten(_)
RECURSIVE flattenAll(_)
flatten(node) ==
  IF node.kind \in {"string", "text"} THEN node.text ELSE flattenAll(node.kids)
flattenAll(items) ==
  IF items = << >> THEN << >> ELSE flatten(Head(items)) \o flattenAll(Tail(items))

(***************************************************************************)
(* The highlighter of prism-vim-integration.js.  Its tokens are the        *)
(* content / type / cssClasses tokens the handler's processor works on;    *)
(* a typed node becomes one token that carries the node's rendering.       *)
(***************************************************************************)
\* new VimToken(content, type, cssClasses, context)
Integration_VimToken(content, type, cssClasses, context) ==
  Handler_VimToken(content, type, cssClasses, context)

\* ensurePrismLoaded: the value it leaves in useFallback; the assignment
\* that ends the method overwrites the one made for a missing grammar
Integration_ensurePrismLoaded(defined, grammar) ==
  IF ~defined THEN TRUE
  ELSE FALSE

\* escapeHtml of one character
Integration_escapeHtml(c) ==
  IF c = "&" THEN "&amp;" ELSE IF c = "<" THEN "&lt;" ELSE IF c = ">" THEN "&gt;"
  ELSE IF c = "\"" THEN "&quot;" ELSE IF c = "'" THEN "&#39;" ELSE c

Integration_escaped(text) == [k \in 1..Len(text) |-> Txt(Integration_escapeHtml(text[k]))]

RECURSIVE renderPrismTokenAsHTML(_)
RECURSIVE renderPrismTokensAsHTML(_)
renderPrismTokenAsHTML(token) ==
  IF token.kind = "string" THEN Integration_escaped(token.text)
  ELSE <<Open(nodeClasses(token))>>
       \o (IF token.kind = "text" THEN Integration_escaped(token.text)
           ELSE renderPrismTokensAsHTML(token.kids))
       \o <<Close>>
renderPrismTokensAsHTML(items) ==
  IF items = << >> THEN << >>
  ELSE renderPrismTokenAsHTML(Head(items)) \o renderPrismTokensAsHTML(Tail(items))

\* extractContent: the text of a node, whatever the shape of its content
extractContent(token) == flatten(token)

RECURSIVE convertPrismToVim(_)
convertPrismToVim(prismTokens) ==
  IF prismTokens = << >> THEN << >>
  ELSE LET token == Head(prismTokens)
           vimToken ==
             IF token.kind = "string"
             THEN Integration_VimToken(token.text, "text", << >>, "")
             ELSE [Integration_VimToken(extractContent(token),
                                        IF token.type # "" THEN token.type ELSE "text",
                                        << >>, token.type)
                     EXCEPT !.originalHTML = renderPrismTokenAsHTML(token)]
       IN <<vimToken>> \o convertPrismToVim(Tail(prismTokens))

\* the bracket tables of applyRainbowBrackets
openBrackets == {"(", "[", "{"}
closeBrackets == {")", "]", "}"}
bracketPairs(b) == IF b = "(" THEN ")" ELSE IF b = "[" THEN "]" ELSE "}"
bracketMap(b) ==
  IF b \in {"(", ")"} THEN "brace-round"
  ELSE IF b \in {"[", "]"} THEN "brace-square"
  ELSE "brace-curly"
levelClass(level) == "brace-level-" \o ToString(((level - 1) % 12) + 1)

\* what one bracket does to the class list, the stack of open brackets and
\* the nesting level
bracketStep(classes, bracket, stack, level) ==
  LET base == classes \o <<bracketMap(bracket)>>
      lastOpen == stack[Len(stack)]
  IN IF bracket \in openBrackets
     THEN [classes |-> base \o <<levelClass(level + 1)>>,
           stack |-> Append(stack, [type |-> bracket, level |-> level + 1]),
           level |-> level + 1]
     ELSE IF stack # << >> /\ bracketPairs(lastOpen.type) = bracket
     THEN [classes |-> base \o <<levelClass(lastOpen.level)>>,
           stack |-> SubSeq(stack, 1, Len(stack) - 1),
           level |-> Max2(0, level - 1)]
     ELSE [classes |-> base, stack |-> stack, level |-> level]

\* the class attribute the pattern of applyRainbowBracketsToHTML accepts:
\* 'token' and, after it, 'punctuation'
isPunctuationSpan(classes) ==
  \E i, j \in 1..Len(classes) : i < j /\ classes[i] = "token" /\ classes[j] = "punctuation"

\* applyRainbowBracketsToHTML: every span of punctuation holding one bracket
\* gets the bracket's classes, left to right
RECURSIVE applyRainbowBracketsToHTML(_, _, _)
applyRainbowBracketsToHTML(html, stack, level) ==
  IF html = << >> THEN [html |-> << >>, stack |-> stack, level |-> level]
  ELSE IF /\ Len(html) >= 3
          /\ html[1].k = "open" /\ isPunctuationSpan(html[1].classes)
          /\ html[2].k = "txt" /\ html[2].s \in openBrackets \cup closeBrackets
          /\ html[3].k = "close"
  THEN LET step == bracketStep(html[1].classes, html[2].s, stack, level)
           rest == applyRainbowBracketsToHTML(SubSeq(html, 4, Len(html)),
                                              step.stack, step.level)
       IN [html |-> <<Open(step.classes), html[2], html[3]>> \o rest.html,
           stack |-> rest.stack, level |-> rest.level]
  ELSE LET rest == applyRainbowBracketsToHTML(Tail(html), stack, level)
       IN [html |-> <<Head(html)>> \o rest.html,
           stack |-> rest.stack, level |-> rest.level]

\* String.prototype.trim
RECURSIVE trim(_)
trim(text) ==
  IF text # << >> /\ Head(text) \in {" ", "\n", "\t"} THEN trim(Tail(text))
  ELSE IF text # << >> /\ text[Len(text)] \in {" ", "\n", "\t"}
  THEN trim(SubSeq(text, 1, Len(text) - 1))
  ELSE text

\* applyRainbowBrackets: the loop over the tokens.  A token with markup is
\* handed a copy of the level ({ level }), so only the stack comes back from
\* it; a token without markup counts only when it is classed punctuation.
RECURSIVE applyRainbowBrackets(_, _, _)
applyRainbowBrackets(vimToks, stack, level) ==
  IF vimToks = << >> THEN << >>
  ELSE
    LET token == Head(vimToks)
        inHtml == applyRainbowBracketsToHTML(token.originalHTML, stack, level)
        content == trim(token.content)
        isBracket == /\ \E c \in 1..Len(token.cssClasses) : token.cssClasses[c] = "punctuation"
                     /\ Len(content) = 1
                     /\ content[1] \in openBrackets \cup closeBrackets
        step == bracketStep(token.cssClasses, content[1], stack, level)
    IN IF token.originalHTML # << >>
       THEN <<[token EXCEPT !.originalHTML = inHtml.html]>>
            \o applyRainbowBrackets(Tail(vimToks), inHtml.stack, level)
       ELSE IF isBracket
       THEN <<[token EXCEPT !.cssClasses = step.classes]>>
            \o applyRainbowBrackets(Tail(vimToks), step.stack, step.level)
       ELSE <<token>> \o applyRainbowBrackets(Tail(vimToks), stack, level)

RECURSIVE contentLength(_)
contentLength(vimToks) ==
  IF vimToks = << >> THEN 0
  ELSE Len(Head(vimToks).content) + contentLength(Tail(vimToks))

\* tokenize of prism-vim-integration.js.  Without a grammar the tokenizer
\* call throws (p.throws) and the catch answers.
Integration_tokenize(c, p) ==
  LET whole == <<Integration_VimToken(c, "text", << >>, "")>>
      converted == convertPrismToVim(p.out)
  IN IF Integration_ensurePrismLoaded(p.defined, p.grammar) THEN whole
     ELSE IF p.throws THEN whole
     ELSE IF Len(c) # contentLength(converted) THEN whole
     ELSE applyRainbowBrackets(converted, << >>, 0)

\* the objects handed to the engine, numbered
identified(toks) == [k \in 1..Len(toks) |-> [toks[k] EXCEPT !.src = k]]

NoOp == [name |-> "none", mode |-> "", position |-> 0, cursorClass |-> "null",
         selectionStart |-> 0, selectionEnd |-> 0, lastSelectedPosition |-> 0,
         newCssClasses |-> 0]
\* the tokenizer as a highlighter finds it: whether the global and the
\* grammar exist, what the constructor's ensurePrismLoaded left in
\* useFallback, whether the tokenizer call throws and what it returns.
\* Without the global or without a grammar the call cannot return.
PrismEnv(defined, grammar, throws, out) ==
  [defined |-> defined, grammar |-> grammar,
   useFallback |-> ensurePrismLoaded(defined, grammar),
   throws |-> throws, out |-> out]
NoPrism == PrismEnv(FALSE, FALSE, TRUE, << >>)

\* no page: the object under the call lives outside a document
NoPage == [Prism |-> FALSE]

(***************************************************************************)
(* The tokenizer adapter as a machine: one tokenize(code) call             *)
(***************************************************************************)
TokInit ==
  /\ pc = "ready"
  /\ code \in Texts(MaxCode)
  /\ \/ prism = NoPrism
     \/ prism = PrismEnv(TRUE, FALSE, TRUE, << >>)
     \/ prism = PrismEnv(TRUE, TRUE, TRUE, << >>)
     \/ \E l \in 0..Len(code), n \in 0..MaxNodes :
          \E f \in ForestsOver(SubSeq(code, 1, l), n, AllKinds, Types) :
            prism = PrismEnv(TRUE, TRUE, FALSE, f)
  /\ vimTokens = << >>
  /\ before = << >> /\ tokens = << >> /\ result = << >> /\ op = NoOp
  /\ rendered = << >> /\ heap = << >> /\ page = NoPage

Tokenize ==
  /\ pc = "ready"
  /\ vimTokens' = tokenize(code, prism)
  /\ op' = [NoOp EXCEPT !.name = "tokenize"]
  /\ pc' = "done"
  /\ UNCHANGED <<code, prism, before, tokens, result, rendered, heap, page>>

IntegrationTokenize ==
  /\ pc = "ready"
  /\ vimTokens' = Integration_tokenize(code, prism)
  /\ op' = [NoOp EXCEPT !.name = "Integration.tokenize"]
  /\ pc' = "done"
  /\ UNCHANGED <<code, prism, before, tokens, result, rendered, heap, page>>

TokNext == Tokenize \/ IntegrationTokenize

SpecTok == TokInit /\ [][TokNext]_vars

(***************************************************************************)
(* The effect engine as a machine: one call on freshly tokenized text.     *)
(* Whether a document exists for escapeHtml is the environment's choice at *)
(* each call.                                                              *)
(***************************************************************************)
CursorClasses == {"cursor", "cursor-insert"}
Modes == {"normal", "insert", "visual"}
Offsets(c) == (0 - 1)..(Len(c) + 1)

Init ==
  /\ pc = "ready"
  /\ code \in Texts(MaxLen)
  /\ \E n \in 0..MaxFxNodes :
       \E f \in ForestsOver(code, n, RegularKinds, Types) :
         before = identified(convertPrismTokensToVim(f, code))
  /\ tokens = before
  /\ result = << >>
  /\ op = NoOp
  /\ prism = NoPrism /\ vimTokens = << >> /\ rendered = << >> /\ heap = << >> /\ page = NoPage

Returned(res, call) ==
  /\ pc = "ready"
  /\ \E returned \in {res} : /\ result' = returned
                             /\ tokens' = objectsAfter(tokens, returned)
  /\ op' = call
  /\ pc' = "done"
  /\ UNCHANGED <<code, before, prism, vimTokens, rendered, heap, page>>

ApplySimpleCursor ==
  /\ pc = "ready"
  /\ \E position \in Offsets(code), cursorClass \in CursorClasses, document \in BOOLEAN :
       Returned(applySimpleCursor(tokens, position, cursorClass, document),
                [NoOp EXCEPT !.name = "applySimpleCursor", !.position = position,
                             !.cursorClass = cursorClass])

ApplyInsertCursor ==
  /\ pc = "ready"
  /\ \E position \in Offsets(code), cursorClass \in CursorClasses, document \in BOOLEAN :
       Returned(applyInsertCursor(tokens, position, cursorClass, document),
                [NoOp EXCEPT !.name = "applyInsertCursor", !.position = position,
                             !.cursorClass = cursorClass])

ApplySelection ==
  /\ pc = "ready"
  /\ \E selectionStart \in Offsets(code), selectionEnd \in Offsets(code) :
       Returned(applySelection(tokens, selectionStart, selectionEnd),
                [NoOp EXCEPT !.name = "applySelection", !.selectionStart = selectionStart,
                             !.selectionEnd = selectionEnd])

Process ==
  /\ pc = "ready"
  /\ \E mode \in Modes, selectionStart \in Offsets(code), selectionEnd \in Offsets(code),
        document \in BOOLEAN :
       /\ mode # "visual" => selectionEnd \in {selectionStart, selectionStart + 1}
       /\ Returned(process(tokens, mode, selectionStart, selectionEnd, document),
                   [NoOp EXCEPT !.name = "process", !.mode = mode,
                                !.selectionStart = selectionStart,
                                !.selectionEnd = selectionEnd])

\* the tokens prism-vim-integration.js makes of the same pieces of text: a
\* plain string becomes a 'text' token without markup, a typed node a token
\* of its type with the node's rendering
integrationTokens(toks) ==
  [k \in 1..Len(toks) |->
     IF toks[k].type \in {"text", "newline"}
     THEN Handler_VimToken(toks[k].value, "text", << >>, "")
     ELSE [Handler_VimToken(toks[k].value, toks[k].type, << >>, toks[k].type)
             EXCEPT !.originalHTML =
               <<Open(<<"token", toks[k].type>>)>>
               \o [c \in 1..Len(toks[k].value) |-> Txt(escapeHtml(toks[k].value[c]))]
               \o <<Close>>]]

\* what the handler's processor hands to its effects
handlerTokens == Handler_addPositionInfo(integrationTokens(before))

HandlerApplySelection ==
  /\ pc = "ready"
  /\ \E selectionStart \in Offsets(code), selectionEnd \in Offsets(code) :
       /\ result' = Handler_applySelection(handlerTokens, selectionStart, selectionEnd)
       /\ op' = [NoOp EXCEPT !.name = "Handler.applySelection",
                             !.selectionStart = selectionStart,
                             !.selectionEnd = selectionEnd]
       /\ pc' = "done"
       /\ UNCHANGED <<code, before, tokens, prism, vimTokens, rendered, heap, page>>

Next == ApplySimpleCursor \/ ApplyInsertCursor \/ ApplySelection \/ Process

Spec == Init /\ [][Next]_vars

\* the two selection implementations side by side
SelNext == ApplySelection \/ HandlerApplySelection

SpecSel == Init /\ [][SelNext]_vars

(***************************************************************************)
(* TokenRenderer and NeovimModeSimulator.processCode                       *)
(***************************************************************************)
\* PrismVimHighlighter.getTokenClassName: the class string of a type, 'token'
\* for a type the map does not list or maps to ''
getTokenClassName(tokenType) ==
  IF tokenType = "keyword" THEN <<"token", "keyword">>
  ELSE IF tokenType = "function" THEN <<"token", "function">>
  ELSE <<"token">>

\* TokenRenderer.getTokenClasses
getTokenClasses(token) ==
  (IF token.type # "" /\ token.type # "text"
   THEN IF token.prismClasses # << >> THEN token.prismClasses
        ELSE getTokenClassName(token.type)
   ELSE << >>)
  \o (IF token.cursor # "null" THEN <<token.cursor>> ELSE << >>)
  \o (IF token.isLastSelectedChar THEN <<"visual-block-cursor">>
      ELSE IF token.selected THEN <<"visual-selection">> ELSE << >>)

\* TokenRenderer.renderToken
renderToken(token) ==
  IF token.preRenderedHtml # << >> THEN token.preRenderedHtml
  ELSE IF token.isComplex
  THEN IF token.hasPartialCursor
       THEN applyCursorWithPosition(token, token.partialCursorPosition,
                                    token.partialCursorClass)
       ELSE IF token.hasPartialSelection
       THEN applyVimEffectsWithPartialSelection(token, token.partialSelectionStart,
                                                token.partialSelectionEnd,
                                                token.partialLastSelectedPosition)
       ELSE applyVimEffects(token)
  ELSE LET escapedValue == escaped(token.value)
           classes == getTokenClasses(token)
       IN IF token.type = "newline"
          THEN IF token.selected
               THEN <<Open(<<"visual-selection">>), Txt("\n"), Close>>
               ELSE <<Txt("\n")>>
          ELSE IF token.type = "cursor" /\ token.value = << >>
          THEN <<Open(<<"cursor-insert">>), Close>>
          ELSE IF classes # << >>
          THEN <<Open(classes)>> \o escapedValue \o <<Close>>
          ELSE escapedValue

\* TokenRenderer.render: the renderings joined
render(toks) == Concat([k \in 1..Len(toks) |-> renderToken(toks[k])])

\* a token without pre-rendered markup is rendered through escapeHtml, which
\* needs the document
renderThrows(toks, dom) ==
  ~dom /\ \E k \in 1..Len(toks) : toks[k].preRenderedHtml = << >>

toUpperCase(mode) ==
  IF mode = "normal" THEN "NORMAL" ELSE IF mode = "insert" THEN "INSERT"
  ELSE IF mode = "visual" THEN "VISUAL" ELSE mode

\* the status bar: a line break and the div with the mode's name
StatusBar(text) == [k |-> "div", classes |-> <<"status-bar-ide">>, s |-> text]
generateStatusBar(mode) == <<Txt("\n"), StatusBar("-- " \o toUpperCase(mode) \o " --")>>

\* NeovimModeSimulator.processCode of a simulator that has a highlighter:
\* tokenize, process, render, append the status bar
processCode(sourceCode, mode, selectionStart, selectionEnd, p, dom) ==
  LET toks == identified(tokenize(sourceCode, p))
      processedTokens == process(toks, mode, selectionStart, selectionEnd, dom)
  IN [tokens |-> toks,
      processedTokens |-> processedTokens,
      threw |-> renderThrows(processedTokens, dom),
      html |-> render(processedTokens) \o generateStatusBar(mode)]

\* the simulator before a processCode call: the text and the tokenizer the
\* highlighter will find
CodeInit ==
  /\ pc = "ready"
  /\ code \in Texts(MaxCode)
  /\ \/ prism = NoPrism
     \/ \E n \in 0..MaxFxNodes :
          \E f \in ForestsOver(code, n, RegularKinds, Types) :
            prism = PrismEnv(TRUE, TRUE, FALSE, f)
  /\ before = << >> /\ tokens = << >> /\ result = << >>
  /\ op = NoOp
  /\ vimTokens = << >> /\ rendered = << >> /\ heap = << >> /\ page = NoPage

ProcessCode ==
  /\ pc = "ready"
  /\ \E mode \in Modes, selectionStart \in Offsets(code), selectionEnd \in Offsets(code),
        document \in BOOLEAN :
       /\ mode # "visual" => selectionEnd \in {selectionStart, selectionStart + 1}
       /\ \E r \in {processCode(code, mode, selectionStart, selectionEnd, prism, document)} :
            /\ vimTokens' = r.tokens
            /\ before' = r.tokens
            /\ tokens' = objectsAfter(r.tokens, r.processedTokens)
            /\ result' = r.processedTokens
            /\ rendered' = IF r.threw THEN << >> ELSE r.html
            /\ pc' = IF r.threw THEN "threw" ELSE "done"
            /\ op' = [NoOp EXCEPT !.name = "processCode", !.mode = mode,
                                  !.selectionStart = selectionStart,
                                  !.selectionEnd = selectionEnd]
            /\ UNCHANGED <<code, prism, heap, page>>

CodeNext == ProcessCode

SpecCode == CodeInit /\ [][CodeNext]_vars

(***************************************************************************)
(* The character-level renderers of a recursive token as a machine: one    *)
(* renderWithPartialCursor or renderWithPartialSelection call on a token   *)
(* the adapter built at some offset of a longer text.                      *)
(***************************************************************************)
\* a plain character and one escapeHtml rewrites
RenderChars == {"a", "<"}
\* where the token starts in its text: after one earlier character
RenderStart == 1

RenderInit ==
  /\ pc = "ready"
  /\ code \in TextsOver(RenderChars, MaxRenderLen)
  /\ \E n \in 1..MaxRenderNodes :
       \E node \in NodesOver(code, n, AllKinds, Types) :
         /\ processToken(node, RenderStart) # << >>
         /\ processToken(node, RenderStart)[1].isComplex
         /\ before = identified(processToken(node, RenderStart))
  /\ tokens = before
  /\ result = << >> /\ rendered = << >> /\ heap = << >> /\ page = NoPage
  /\ op = NoOp
  /\ prism = NoPrism /\ vimTokens = << >>

\* the call returns its markup.  The token has at least one character, so
\* without a document every call throws at its first escapeHtml: the machine
\* is the renderer where a document exists.
RenderReturned(html, call) ==
  /\ pc = "ready"
  /\ ~rendererThrows(html, TRUE)
  /\ rendered' = html
  /\ pc' = "done"
  /\ op' = call
  /\ UNCHANGED <<code, before, tokens, result, prism, vimTokens, heap, page>>

RenderWithPartialCursor ==
  /\ pc = "ready"
  /\ \E position \in (before[1].start - 1)..(before[1].end + 1),
        cursorClass \in CursorClasses :
       RenderReturned(renderWithPartialCursor(before[1], position, cursorClass),
                      [NoOp EXCEPT !.name = "renderWithPartialCursor",
                                   !.position = position, !.cursorClass = cursorClass])

\* the range from just before the token to just after it; the last selected
\* position outside the range, on its first character or on its last
RenderWithPartialSelection ==
  /\ pc = "ready"
  /\ \E selectionStart \in (before[1].start - 1)..before[1].end,
        selectionEnd \in before[1].start..(before[1].end + 1) :
       \E lastSelectedPosition \in {selectionStart - 1, selectionStart, selectionEnd - 1} :
         RenderReturned(renderWithPartialSelection(before[1], selectionStart, selectionEnd,
                                                   lastSelectedPosition),
                        [NoOp EXCEPT !.name = "renderWithPartialSelection",
                                     !.selectionStart = selectionStart,
                                     !.selectionEnd = selectionEnd,
                                     !.lastSelectedPosition = lastSelectedPosition])

RenderNext == RenderWithPartialCursor \/ RenderWithPartialSelection

SpecRender == RenderInit /\ [][RenderNext]_vars

(***************************************************************************)
(* VimToken.copy as a machine.  A token's class list is an array, held by  *)
(* reference: heap[r] is the array behind reference r.  One copy call is   *)
(* made on a token in any effect state; afterwards the caller may push a   *)
(* class onto the copy's list.                                             *)
(***************************************************************************)
ClassLists == {<< >>, <<"token", "keyword">>}
CursorValues == {"null"} \cup CursorClasses

\* the reference a token holds to its class list
classRef(token) ==
  IF "cssClasses" \in DOMAIN token THEN token.cssClasses ELSE token.prismClasses
\* the token with its class list read through the heap
deref(h, token) ==
  IF "cssClasses" \in DOMAIN token THEN [token EXCEPT !.cssClasses = h[@]]
  ELSE [token EXCEPT !.prismClasses = h[@]]

\* VimToken.copy of the simulator's token: [...this.prismClasses] is a new
\* array with the same elements
copyOnHeap(h, token, newType, newValue, newStart, newEnd) ==
  LET newToken == copy(deref(h, token), newType, newValue, newStart, newEnd)
  IN [heap |-> Append(h, newToken.prismClasses),
      token |-> [newToken EXCEPT !.prismClasses = Len(h) + 1]]

\* VimToken.copy of prism-vim-integration.js: an omitted or empty argument
\* is falsy and falls back to the source's own field; newCssClasses is a
\* reference, 0 when omitted
Integration_copy(h, token, newContent, newType, newCssClasses) ==
  [heap |-> h,
   token |-> Integration_VimToken(
               IF newContent # << >> THEN newContent ELSE token.content,
               IF newType # "" THEN newType ELSE token.type,
               IF newCssClasses # 0 THEN newCssClasses ELSE token.cssClasses,
               token.context)]

\* the source token owns the array at reference 1; reference 2 is an array
\* of the caller's
CopyInit ==
  /\ pc = "ready"
  /\ code \in Texts(MaxCode)
  /\ \E own \in ClassLists, callers \in ClassLists : heap = <<own, callers>>
  /\ page = NoPage
  /\ \E type \in Types, cursor \in CursorValues, selected \in BOOLEAN,
        isLastSelectedChar \in BOOLEAN :
       \/ tokens = <<[VimToken(type, code, 0, Len(code)) EXCEPT
                        !.cursor = cursor, !.selected = selected,
                        !.isLastSelectedChar = isLastSelectedChar,
                        !.prismClasses = 1]>>
       \/ tokens = <<[Integration_VimToken(code, type, 1, "") EXCEPT
                        !.cursor = cursor, !.selected = selected,
                        !.isLastSelectedChar = isLastSelectedChar]>>
  /\ before = <<deref(heap, tokens[1])>>
  /\ result = << >> /\ rendered = << >>
  /\ op = NoOp
  /\ prism = NoPrism /\ vimTokens = << >>

CopyReturned(r, call) ==
  /\ pc = "ready"
  /\ result' = <<r.token>>
  /\ heap' = r.heap
  /\ op' = call
  /\ pc' = "copied"
  /\ UNCHANGED <<code, before, tokens, prism, vimTokens, rendered, page>>

Copy ==
  /\ pc = "ready"
  /\ "prismClasses" \in DOMAIN tokens[1]
  /\ \E newType \in Types, newEnd \in 0..Len(code) :
       CopyReturned(copyOnHeap(heap, tokens[1], newType, substring(code, 0, newEnd),
                               0, newEnd),
                    [NoOp EXCEPT !.name = "copy"])

IntegrationCopy ==
  /\ pc = "ready"
  /\ "cssClasses" \in DOMAIN tokens[1]
  /\ \E newContent \in {<< >>, code}, newType \in {""} \cup Types, newCssClasses \in {0, 2} :
       CopyReturned(Integration_copy(heap, tokens[1], newContent, newType, newCssClasses),
                    [NoOp EXCEPT !.name = "Integration.copy",
                                 !.newCssClasses = newCssClasses])

\* the caller pushes a class onto the copy's list
ChangeCopyClasses ==
  /\ pc = "copied"
  /\ heap' = [heap EXCEPT ![classRef(result[1])] = Append(@, "changed")]
  /\ pc' = "changed"
  /\ UNCHANGED <<code, before, tokens, result, op, prism, vimTokens, rendered, page>>

CopyNext == Copy \/ IntegrationCopy \/ ChangeCopyClasses

SpecCopy == CopyInit /\ [][CopyNext]_vars

(***************************************************************************)
(* Properties of the tokenizer adapter (checked under SpecTok)             *)
(***************************************************************************)
values(toks) == [i \in 1..Len(toks) |-> toks[i].value]

\* sorted by start, starting at 0, contiguous, each as long as its value,
\* ending at n
Covers(toks, n) ==
  /\ toks = << >> => n = 0
  /\ toks # << >> => toks[1].start = 0 /\ toks[Len(toks)].end = n
  /\ \A i \in 1..Len(toks) : toks[i].end - toks[i].start = Len(toks[i].value)
  /\ \A i \in 1..(Len(toks) - 1) : toks[i + 1].start = toks[i].end
  /\ \A i, j \in 1..Len(toks) : i < j => toks[i].start <= toks[j].start

\* C1: whenever the text the adapter extracts from the tokenizer's output is
\* no longer than the input, the tokens tokenize returns are sorted by start,
\* begin at 0, are contiguous, are each as long as their value and end at
\* text.length.
C1_Coverage ==
  (pc = "done" /\ op.name = "tokenize" /\ Len(extractAll(prism.out)) <= Len(code))
    => Covers(vimTokens, Len(code))

\* C1 witness: a tokenizer output with a recursive node that under-covers the
\* text, so that the trailing remainder was appended after a recursive token
C1_Witness ==
  /\ pc = "done" /\ op.name = "tokenize" /\ ~prism.useFallback /\ ~prism.throws
  /\ Len(extractAll(prism.out)) < Len(code)
  /\ Len(vimTokens) >= 2
  /\ \E i \in 1..Len(vimTokens) : vimTokens[i].isComplex

\* C2 (as claimed): when the leaves of the tokenizer's output spell the input
\* (contents being strings, arrays or single nested nodes), the values of the
\* returned tokens concatenate to the input and each value is the input's
\* substring at [start, end).
C2_RoundTrip ==
  (/\ pc = "done" /\ op.name = "tokenize" /\ ~prism.useFallback /\ ~prism.throws
   /\ flattenAll(prism.out) = code)
    => /\ Concat(values(vimTokens)) = code
       /\ \A i \in 1..Len(vimTokens) :
            vimTokens[i].value = SubSeq(code, vimTokens[i].start + 1, vimTokens[i].end)

\* C8 (as claimed): tokenize('') returns an empty sequence on every path,
\* the fallback paths included.
C8_EmptyText ==
  (pc = "done" /\ code = << >>) => vimTokens = << >>

(***************************************************************************)
(* Properties of the effect engine (checked under Spec)                    *)
(***************************************************************************)
AllFlat(toks) == \A i \in 1..Len(toks) : ~toks[i].isComplex

isCursorToken(t) == t.type = "cursor" /\ t.value = << >>
withoutCursorTokens(toks) == SelectSeq(toks, LAMBDA t : ~isCursorToken(t))

\* the tokens of toks whose span contains offset p
holders(toks, p) == {i \in 1..Len(toks) : toks[i].start <= p /\ p < toks[i].end}

marked(toks) == {i \in 1..Len(toks) : toks[i].cursor # "null"}

\* C3 (as claimed): for flat tokens (non-splittable ones included) and
\* 0 <= s < e <= textLength, after applySelection the character at p lies in a
\* selected token iff s <= p < e, and in a token flagged isLastSelectedChar
\* iff p = e - 1.
C3_SelectionBoundary ==
  (/\ pc = "done" /\ op.name = "applySelection" /\ AllFlat(before)
   /\ 0 <= op.selectionStart /\ op.selectionStart < op.selectionEnd
   /\ op.selectionEnd <= Len(code))
    => \A p \in 0..(Len(code) - 1) :
         /\ (\E i \in holders(result, p) : result[i].selected)
              <=> (op.selectionStart <= p /\ p < op.selectionEnd)
         /\ (\E i \in holders(result, p) : result[i].isLastSelectedChar)
              <=> (p = op.selectionEnd - 1)

\* C4: whatever the call (either cursor operation with any position and
\* style, or a selection with any range), the values of the returned tokens
\* concatenate to what the values of the input tokens concatenate to.
C4_ContentPreserved ==
  pc = "done" => Concat(values(result)) = Concat(values(before))

\* C4 witness: a selection that cut one token into three fragments
C4_Witness ==
  /\ pc = "done" /\ op.name = "applySelection"
  /\ Len(before) = 1 /\ Len(result) = 3
  /\ result[2].selected /\ ~result[1].selected /\ ~result[3].selected

\* C5: every engine operation maps a partition of [0, textLength) to a
\* partition of it: leaving out the zero-width cursor tokens, the output is
\* sorted by start, begins at 0, is contiguous, ends at textLength and every
\* token is as long as its value.
C5_PartitionPreserved ==
  pc = "done" => Covers(withoutCursorTokens(result), Len(code))

\* C5 witness: an insert cursor strictly inside a token, which was cut in two
\* around a zero-width cursor token
C5_Witness ==
  /\ pc = "done" /\ op.name = "applyInsertCursor"
  /\ Len(before) = 2 /\ Len(result) = 4
  /\ \E i \in 2..3 : isCursorToken(result[i]) /\ result[i].start = op.position
                     /\ result[i - 1].end = op.position
                     /\ result[i + 1].start = op.position

\* C6 (checked under SpecSel): applySelection with
\* selectionStart >= selectionEnd returns the same token objects in the same
\* order and writes to none of them, in the simulator's processor, whose
\* guard returns at once, and in the handler's, which has no guard.
C6_InvalidSelectionNoOp ==
  (pc = "done" /\ op.selectionStart >= op.selectionEnd)
    => /\ op.name = "applySelection" => result = before /\ tokens = before
       /\ op.name = "Handler.applySelection" => result = handlerTokens

\* C6 witness: an inverted range lying inside the text, handed to the
\* handler's selection together with at least two tokens
C6_Witness ==
  /\ pc = "done" /\ op.name = "Handler.applySelection"
  /\ op.selectionStart > op.selectionEnd
  /\ op.selectionEnd >= 0 /\ op.selectionStart < Len(code)
  /\ Len(before) >= 2 /\ result = handlerTokens

\* C7 (as claimed): a cursor operation with a position below 0 or above
\* textLength returns the input unchanged: as many tokens, no cursor token
\* synthesized, no token marked.
C7_OutOfRangeCursorNoOp ==
  (/\ pc = "done" /\ op.name \in {"applySimpleCursor", "applyInsertCursor"}
   /\ (op.position < 0 \/ op.position > Len(code)))
    => /\ Len(result) = Len(before)
       /\ \A i \in 1..Len(result) : ~isCursorToken(result[i])
       /\ marked(result) = {}

modeCursorClass(mode) == IF mode = "normal" THEN "cursor" ELSE "cursor-insert"

C10_NormalCursor ==
  (/\ pc = "done" /\ op.name = "applySimpleCursor" /\ op.cursorClass = "cursor"
   /\ AllFlat(before) /\ 0 <= op.position /\ op.position < Len(code))
    => /\ Cardinality(marked(result)) = 1
       /\ \A i \in marked(result) :
            /\ result[i].cursor = "cursor"
            /\ result[i].start = op.position /\ result[i].end = op.position + 1
            /\ result[i].value = <<code[op.position + 1]>>
            /\ \A k \in holders(before, op.position) : result[i].type = before[k].type
       /\ \A i \in 1..Len(result) : result[i].start < result[i].end

\* C10 witness: the cursor in the middle of a token, cut into three fragments
C10_Witness ==
  /\ pc = "done" /\ op.name = "applySimpleCursor" /\ op.cursorClass = "cursor"
  /\ AllFlat(before) /\ Len(before) = 1 /\ Len(result) = 3
  /\ result[2].cursor = "cursor"

\* C11: for flat tokens and 0 <= position <= textLength, applyInsertCursor
\* with 'cursor-insert' returns exactly one zero-width token of type cursor,
\* at [position, position) and carrying 'cursor-insert'; the tokens before it
\* end at or before position, those after it start at or after position, and
\* a token that strictly contained position is replaced by its fragments
\* [start, position) and [position, end) around the cursor token, the other
\* tokens staying in place.
C11_InsertCursor ==
  (/\ pc = "done" /\ op.name = "applyInsertCursor" /\ op.cursorClass = "cursor-insert"
   /\ AllFlat(before) /\ 0 <= op.position /\ op.position <= Len(code))
    => LET p == op.position
           cursors == {i \in 1..Len(result) : isCursorToken(result[i])}
           inside == {k \in 1..Len(before) : before[k].start < p /\ p < before[k].end}
       IN /\ Cardinality(cursors) = 1
          /\ \A i \in cursors :
               /\ result[i].start = p /\ result[i].end = p
               /\ result[i].cursor = "cursor-insert"
               /\ \A j \in 1..(i - 1) : result[j].end <= p
               /\ \A j \in (i + 1)..Len(result) : result[j].start >= p
          /\ \A i \in 1..Len(result) : i \notin cursors => result[i].cursor = "null"
          /\ \A k \in inside :
               /\ Len(result) = Len(before) + 2
               /\ \A j \in 1..(k - 1) : result[j] = before[j]
               /\ \A j \in (k + 1)..Len(before) : result[j + 2] = before[j]
               /\ isCursorToken(result[k + 1])
               /\ result[k].type = before[k].type /\ result[k + 2].type = before[k].type
               /\ result[k].start = before[k].start /\ result[k].end = p
               /\ result[k + 2].start = p /\ result[k + 2].end = before[k].end
               /\ result[k].value = SubSeq(code, before[k].start + 1, p)
               /\ result[k + 2].value = SubSeq(code, p + 1, before[k].end)
          /\ inside = {} => Len(result) = Len(before) + 1

\* C11 witness: the insert cursor strictly inside the second of two tokens
C11_Witness ==
  /\ pc = "done" /\ op.name = "applyInsertCursor" /\ op.cursorClass = "cursor-insert"
  /\ AllFlat(before) /\ Len(before) = 2
  /\ before[2].start < op.position /\ op.position < before[2].end
  /\ Len(result) = 4 /\ isCursorToken(result[3])

\* markup in which a span of the given class wraps a character
wrapsCharacter(html, class) ==
  \E i \in 1..(Len(html) - 1) :
    /\ html[i].k = "open" /\ html[i + 1].k = "txt"
    /\ \E c \in 1..Len(html[i].classes) : html[i].classes[c] = class

\* markup holding an empty span of the given class
hasEmptySpan(html, class) ==
  \E i \in 1..(Len(html) - 1) :
    /\ html[i].k = "open" /\ html[i + 1].k = "close"
    /\ \E c \in 1..Len(html[i].classes) : html[i].classes[c] = class

\* C12 (as claimed): in insert mode, for every position in [0, textLength],
\* positions strictly inside a recursive token included, the result carries
\* a zero-width insert marker (a zero-width token or an empty span) and no
\* character is marked with or wrapped in the cursor-insert class.
C12_InsertNeverOnCharacter ==
  (/\ pc = "done" /\ op.name = "applyInsertCursor" /\ op.cursorClass = "cursor-insert"
   /\ 0 <= op.position /\ op.position <= Len(code))
    => /\ \A i \in 1..Len(result) :
            /\ result[i].cursor = "cursor-insert" => result[i].value = << >>
            /\ ~wrapsCharacter(result[i].preRenderedHtml, "cursor-insert")
       /\ \E i \in 1..Len(result) :
            \/ result[i].cursor = "cursor-insert"
            \/ hasEmptySpan(result[i].preRenderedHtml, "cursor-insert")

\* C13 (checked under SpecTok): when the tokenizer is unavailable, the
\* grammar is not loaded, or the tokenizer call throws, tokenize returns
\* exactly one token of type text holding the whole input; the tokens of
\* part_004 carry positions and that one spans [0, code.length).
C13_FallbackSingleToken ==
  (pc = "done" /\ (~prism.defined \/ ~prism.grammar \/ prism.throws))
    => /\ Len(vimTokens) = 1
       /\ vimTokens[1].type = "text"
       /\ op.name = "tokenize" =>
            /\ vimTokens[1].value = code
            /\ vimTokens[1].start = 0 /\ vimTokens[1].end = Len(code)
       /\ op.name = "Integration.tokenize" => vimTokens[1].content = code

\* C13 witness: the grammar is missing, so the highlighter of part_004 never
\* calls the tokenizer and answers with the whole two-character text
C13_Witness ==
  /\ pc = "done" /\ op.name = "tokenize"
  /\ prism.defined /\ ~prism.grammar /\ prism.useFallback
  /\ Len(code) = 2 /\ Len(vimTokens) = 1 /\ vimTokens[1].end = 2

(***************************************************************************)
(* Properties of the character-level renderers (checked under SpecRender)  *)
(***************************************************************************)
\* what the browser shows of one escaped character
unescapeHtml(e) ==
  IF e = "&amp;" THEN "&" ELSE IF e = "&lt;" THEN "<" ELSE IF e = "&gt;" THEN ">" ELSE e

\* the markup with every tag removed
visibleText(html) ==
  LET chars == SelectSeq(html, LAMBDA item : item.k = "txt")
  IN [i \in 1..Len(chars) |-> unescapeHtml(chars[i].s)]

\* C14: with all markup removed, the output of renderWithPartialCursor and of
\* renderWithPartialSelection is the token's flattened content, for every
\* nested structure, cursor position and style, and selection range
C14_VisibleTextPreserved ==
  (pc = "done" /\ op.name \in {"renderWithPartialCursor", "renderWithPartialSelection"})
    => visibleText(rendered) = before[1].value

\* a nested token of two leaves rendered with a cursor on its second
\* character, which escapeHtml rewrites
C14_Witness ==
  /\ pc = "done" /\ op.name = "renderWithPartialCursor"
  /\ before[1].value = <<"a", "<">>
  /\ Len(before[1].nestedStructure.kids) = 2
  /\ op.position = before[1].start + 1
  /\ \E i \in 1..Len(rendered) : rendered[i].s = "&lt;"

\* where the markup opens a span of exactly this class
spansOf(html, class) == {i \in 1..Len(html) : html[i].k = "open" /\ html[i].classes = <<class>>}

\* how many characters the markup shows before item i
charsBefore(html, i) == Cardinality({j \in 1..(i - 1) : html[j].k = "txt"})

\* C15: for a position inside the token's span, renderWithPartialCursor emits
\* exactly one cursor-styled span, and in 'cursor' style the span wraps
\* exactly the character at index position - start of the flattened content
C15_OneCursorSpan ==
  (/\ pc = "done" /\ op.name = "renderWithPartialCursor"
   /\ before[1].start <= op.position /\ op.position < before[1].end)
    => /\ Cardinality(spansOf(rendered, op.cursorClass)) = 1
       /\ op.cursorClass = "cursor" =>
            \A i \in spansOf(rendered, "cursor") :
              /\ i + 2 <= Len(rendered)
              /\ rendered[i + 1].k = "txt" /\ rendered[i + 2].k = "close"
              /\ charsBefore(rendered, i) = op.position - before[1].start
              /\ unescapeHtml(rendered[i + 1].s)
                   = before[1].value[op.position - before[1].start + 1]

\* the cursor on the first character of the second leaf of a nested token
C15_Witness ==
  /\ pc = "done" /\ op.name = "renderWithPartialCursor" /\ op.cursorClass = "cursor"
  /\ Len(before[1].nestedStructure.kids) = 2
  /\ calculateContentLength(before[1].nestedStructure.kids[1]) = 1
  /\ op.position = before[1].start + 1 /\ op.position < before[1].end
  /\ Cardinality(spansOf(rendered, "cursor")) = 1

\* the item that shows the k-th character of the markup
charItem(html, k) == CHOOSE i \in 1..Len(html) : html[i].k = "txt" /\ charsBefore(html, i) = k - 1

\* the class list of the span that wraps exactly the item i, << >> when none does
wrapperOf(html, i) ==
  IF i > 1 /\ i < Len(html) /\ html[i - 1].k = "open" /\ html[i + 1].k = "close"
  THEN html[i - 1].classes ELSE << >>

\* C16: renderWithPartialSelection wraps a character in a visual-selection
\* span iff its absolute offset is in [overlapStart, overlapEnd) and is not
\* lastSelectedPosition, in a visual-block-cursor span iff it is in the
\* overlap and is lastSelectedPosition; no other selection span is emitted
C16_SelectionSpans ==
  (pc = "done" /\ op.name = "renderWithPartialSelection")
    => /\ Len(visibleText(rendered)) = Len(before[1].value)
       /\ \A k \in 1..Len(before[1].value) :
            LET offset == before[1].start + k - 1
                inOverlap == op.selectionStart <= offset /\ offset < op.selectionEnd
                wrapper == wrapperOf(rendered, charItem(rendered, k))
            IN /\ wrapper = <<"visual-selection">>
                    <=> (inOverlap /\ offset # op.lastSelectedPosition)
               /\ wrapper = <<"visual-block-cursor">>
                    <=> (inOverlap /\ offset = op.lastSelectedPosition)
       /\ Cardinality(spansOf(rendered, "visual-selection")
                      \cup spansOf(rendered, "visual-block-cursor"))
            = Cardinality({k \in 1..Len(before[1].value) :
                             /\ op.selectionStart <= before[1].start + k - 1
                             /\ before[1].start + k - 1 < op.selectionEnd})

\* a two-character nested token whose second character alone is selected and
\* is the last selected position
C16_Witness ==
  /\ pc = "done" /\ op.name = "renderWithPartialSelection"
  /\ Len(before[1].value) = 2 /\ Len(before[1].nestedStructure.kids) = 2
  /\ op.selectionStart = before[1].start + 1 /\ op.selectionEnd = before[1].end
  /\ op.lastSelectedPosition = op.selectionEnd - 1
  /\ wrapperOf(rendered, charItem(rendered, 2)) = <<"visual-block-cursor">>
  /\ wrapperOf(rendered, charItem(rendered, 1)) = << >>

(***************************************************************************)
(* Properties of the effect engine (checked under Spec), continued         *)
(***************************************************************************)
\* C17: in what applySimpleCursor, applyInsertCursor and applySelection
\* return, every recursive token of the input is still one unsplit element,
\* also when its character-level cursor renderer throws
C17_RecursiveTokenUnsplit ==
  (pc = "done" /\ op.name \in {"applySimpleCursor", "applyInsertCursor", "applySelection"})
    => \A k \in 1..Len(before) :
         before[k].isComplex =>
           \E i \in 1..Len(result) :
             /\ result[i].src = k /\ result[i].isComplex
             /\ result[i].value = before[k].value
             /\ result[i].start = before[k].start /\ result[i].end = before[k].end

(***************************************************************************)
(* Properties of VimToken.copy (checked under SpecCopy)                    *)
(***************************************************************************)
\* C18: the copy has no cursor and is not selected; it has the source's
\* classes (or the class list passed to it) without sharing the source's
\* array, so that pushing a class onto the copy's list leaves the source
\* as it was at the call
C18_CopyIndependent ==
  pc \in {"copied", "changed"}
    => /\ result[1].cursor = "null"
       /\ ~result[1].selected /\ ~result[1].isLastSelectedChar
       /\ pc = "copied" =>
            heap[classRef(result[1])]
              = (IF op.newCssClasses # 0 THEN heap[op.newCssClasses]
                 ELSE heap[classRef(tokens[1])])
       /\ classRef(result[1]) # classRef(tokens[1])
       /\ deref(heap, tokens[1]) = before[1]

(***************************************************************************)
(* Properties of the effect engine (checked under Spec): the input objects *)
(***************************************************************************)
\* C19: after applySimpleCursor, applyInsertCursor or applySelection returns,
\* every token object of the input has the field values it had before the
\* call
C19_InputNotMutated ==
  (pc = "done" /\ op.name \in {"applySimpleCursor", "applyInsertCursor", "applySelection"})
    => tokens = before

(***************************************************************************)
(* Properties of processCode (checked under SpecCode)                      *)
(***************************************************************************)
\* where the markup opens a span whose classes include this one
styledSpans(html, class) ==
  {i \in 1..Len(html) :
     html[i].k = "open" /\ \E c \in 1..Len(html[i].classes) : html[i].classes[c] = class}

\* C20: for a non-empty text tokenized into flat tokens and a position
\* inside it, the normal-mode output of processCode has exactly one
\* cursor-styled wrapper, around exactly the character at that offset,
\* whatever the character is
C20_NormalCursorRendered ==
  (/\ pc = "done" /\ op.name = "processCode" /\ op.mode = "normal"
   /\ AllFlat(before)
   /\ 0 <= op.selectionStart /\ op.selectionStart < Len(code))
    => /\ Cardinality(styledSpans(rendered, "cursor")) = 1
       /\ \A i \in styledSpans(rendered, "cursor") :
            /\ rendered[i + 1].k = "txt" /\ rendered[i + 2].k = "close"
            /\ charsBefore(rendered, i) = op.selectionStart
            /\ unescapeHtml(rendered[i + 1].s) = code[op.selectionStart + 1]

\* the class lists of the spans open around item i, innermost last
RECURSIVE openAround(_, _)
openAround(html, i) ==
  IF i <= 1 THEN << >>
  ELSE LET outer == openAround(html, i - 1)
       IN IF html[i - 1].k = "open" THEN Append(outer, html[i - 1].classes)
          ELSE IF html[i - 1].k = "close" /\ outer # << >>
          THEN SubSeq(outer, 1, Len(outer) - 1)
          ELSE outer

\* whether item i lies inside a span that carries the class
styled(html, i, class) ==
  \E j \in 1..Len(openAround(html, i)) :
    \E c \in 1..Len(openAround(html, i)[j]) : openAround(html, i)[j][c] = class

\* C21: in visual mode with 0 <= s < e <= textLength, the output of
\* processCode has exactly one visual-block-cursor span, around exactly the
\* character at offset e - 1 whatever it is; every other character of [s, e)
\* is inside visual-selection, and no character outside [s, e) carries
\* either class
C21_VisualSelectionRendered ==
  (/\ pc = "done" /\ op.name = "processCode" /\ op.mode = "visual"
   /\ 0 <= op.selectionStart /\ op.selectionStart < op.selectionEnd
   /\ op.selectionEnd <= Len(code))
    => /\ Cardinality(styledSpans(rendered, "visual-block-cursor")) = 1
       /\ \A k \in 1..Len(code) :
            LET i == charItem(rendered, k)
                offset == k - 1
            IN /\ styled(rendered, i, "visual-block-cursor")
                    <=> offset = op.selectionEnd - 1
               /\ styled(rendered, i, "visual-selection")
                    <=> (op.selectionStart <= offset /\ offset < op.selectionEnd - 1)

(***************************************************************************)
(* The page: PrismLoader (prism-loader.js) and the handler's convert       *)
(* requests.  One step is one task of the event loop (a click, DOM ready,  *)
(* the load or error event of one appended element) together with every   *)
(* promise reaction it sets off: reactions run before the next task, so a  *)
(* promise chain advances to its next wait on an element within the step.  *)
(* A dynamic import is taken to complete within the step that requests it. *)
(***************************************************************************)
\* the language list of _loadLanguageComponents, cut to its first two names
\* for a loader on its own and to its first name for the loaders of a page
LoaderLanguages == <<"javascript", "typescript">>
PageLoaderLanguages == <<"javascript">>
\* the languages the handler's select offers
HandlerLanguages == {"javascript", "python"}
\* loadPrism calls made on one loader by its users
MaxLoadCalls == 3
\* convert requests made on the page
MaxConverts == 2

\* document.createElement of a script or link, with its handlers set by loader
Element(tag, language, loader) ==
  [tag |-> tag, language |-> language, loader |-> loader, state |-> "pending"]

\* new PrismLoader(); coreStarts counts the _loadPrismCore calls made for it
PrismLoader == [loaded |-> FALSE, loading |-> FALSE, loadPromise |-> 0, coreStarts |-> 0]

\* what a loadPrism call returned: true, or the promise loadPromise named
Call(loader, returned, promise, started) ==
  [loader |-> loader, returned |-> returned, promise |-> promise, started |-> started]

\* document.head.appendChild
appendChild(pg, el) == [pg EXCEPT !.head = Append(@, el)]

\* the last then of loadPrism's chain
loadSucceeded(pg, l) ==
  [pg EXCEPT !.loaders[l].loaded = TRUE, !.loaders[l].loading = FALSE,
             !.promises[pg.loaders[l].loadPromise] = "true"]

\* the catch of loadPrism's chain
loadFailed_KeepsLoading(pg, l) ==
  [pg EXCEPT !.promises[pg.loaders[l].loadPromise] = "rejected"]
loadFailed(pg, l) ==
  [pg EXCEPT !.loaders[l].loading = FALSE,
             !.promises[pg.loaders[l].loadPromise] = "rejected"]

\* _loadPrismCSS: nothing to wait for when a prism stylesheet link exists
_loadPrismCSS(pg, l) ==
  IF \E e \in 1..Len(pg.head) : pg.head[e].tag = "css" THEN loadSucceeded(pg, l)
  ELSE appendChild(pg, Element("css", "", l))

\* _loadPrismPlugins of part_006: the match-braces script, always appended
_loadPrismPlugins(pg, l) == appendChild(pg, Element("plugin", "match-braces", l))

\* what follows the language components: the plugins where the loader has
\* that stage (part_006), then the stylesheet
afterLanguageComponents(pg, l) ==
  IF pg.plugins THEN _loadPrismPlugins(pg, l) ELSE _loadPrismCSS(pg, l)

\* _loadLanguageComponent for the languages from the k-th on
RECURSIVE _loadLanguageComponent(_, _, _)
_loadLanguageComponent(pg, l, k) ==
  IF k > Len(pg.components) THEN pg
  ELSE IF pg.Prism /\ pg.components[k] \in pg.languages
       THEN _loadLanguageComponent(pg, l, k + 1)
       ELSE _loadLanguageComponent(appendChild(pg, Element("language", pg.components[k], l)),
                                   l, k + 1)

\* the elements loader l waits for
waitsFor(pg, l) == {e \in 1..Len(pg.head) : pg.head[e].loader = l /\ pg.head[e].state = "pending"}

\* _loadLanguageComponents: Promise.all of the components
_loadLanguageComponents(pg, l) ==
  LET appended == _loadLanguageComponent(pg, l, 1)
  IN IF waitsFor(appended, l) = {} THEN afterLanguageComponents(appended, l) ELSE appended

\* _loadPrismCore
_loadPrismCore(pg, l) ==
  LET started == [pg EXCEPT !.loaders[l].coreStarts = @ + 1]
  IN IF pg.Prism THEN _loadLanguageComponents(started, l)
     ELSE appendChild(started, Element("core", "", l))

\* loadPrism
loadPrism_NoLoadingCheck(pg, l) ==
  LET ld == pg.loaders[l]
      p == Len(pg.promises) + 1
  IN IF ld.loaded THEN [pg EXCEPT !.calls = Append(@, Call(l, "true", 0, FALSE))]
     ELSE _loadPrismCore([pg EXCEPT !.loaders[l].loading = TRUE,
                                    !.loaders[l].loadPromise = p,
                                    !.promises = Append(@, "pending"),
                                    !.calls = Append(@, Call(l, "promise", p, TRUE))], l)
loadPrism(pg, l) ==
  LET ld == pg.loaders[l]
      p == Len(pg.promises) + 1
  IN IF ld.loaded THEN [pg EXCEPT !.calls = Append(@, Call(l, "true", 0, FALSE))]
     ELSE IF ld.loading
          THEN [pg EXCEPT !.calls = Append(@, Call(l, "promise", ld.loadPromise, FALSE))]
          ELSE _loadPrismCore([pg EXCEPT !.loaders[l].loading = TRUE,
                                         !.loaders[l].loadPromise = p,
                                         !.promises = Append(@, "pending"),
                                         !.calls = Append(@, Call(l, "promise", p, TRUE))], l)

\* the core script's onload: the script has run and defined the global
coreOnload(pg, l) == _loadLanguageComponents([pg EXCEPT !.Prism = TRUE], l)

\* the core script's onerror
coreOnerror(pg, l) == loadFailed(pg, l)

\* resolve() of one language component's promise
componentResolved(pg, l) ==
  IF waitsFor(pg, l) = {} THEN afterLanguageComponents(pg, l) ELSE pg

\* a language script's onload: the script has run and registered its grammar
languageOnload(pg, l, language) ==
  componentResolved([pg EXCEPT !.languages = @ \cup {language}], l)

\* a language script's onerror
languageOnerror_NeverResolves(pg, l) == pg
languageOnerror(pg, l) == componentResolved(pg, l)

\* the plugin script's onload and onerror (part_006)
pluginSettled(pg, l) == _loadPrismCSS(pg, l)

\* the stylesheet link's onload and onerror
cssSettled(pg, l) == loadSucceeded(pg, l)

\* the load (outcome "load") or error (outcome "error") event of element e
fire(pg, e, outcome) ==
  LET el == pg.head[e]
      fired == [pg EXCEPT !.head[e].state = outcome]
  IN CASE el.tag = "core" ->
            IF outcome = "load" THEN coreOnload(fired, el.loader)
            ELSE coreOnerror(fired, el.loader)
       [] el.tag = "language" ->
            IF outcome = "load" THEN languageOnload(fired, el.loader, el.language)
            ELSE languageOnerror(fired, el.loader)
       [] el.tag = "plugin" -> pluginSettled(fired, el.loader)
       [] OTHER -> cssSettled(fired, el.loader)

\* the handler before its first convert request
NoSimulator == [language |-> "null", by |-> 0]
NeovimHandler == [neovimSimulator |-> NoSimulator, currentLanguage |-> "null"]

\* a page on which nothing was requested yet.  defined: a script of the
\* page defined the Prism global before any loader ran; plugins: the
\* loader has the plugin stage (part_006); components: the loader's
\* language list
Page(defined, plugins, components) ==
  [Prism |-> defined, languages |-> {}, plugins |-> plugins,
   components |-> components, head |-> << >>,
   loaders |-> << >>, promises |-> << >>, calls |-> << >>, module |-> FALSE,
   handler |-> NeovimHandler, converts |-> << >>]

\* NeovimModeSimulator.validateModeInput: whether it answers valid
validateModeInput(mode, selectionStart, selectionEnd) ==
  IF (mode = "insert" \/ mode = "normal") /\ selectionStart = selectionEnd THEN TRUE
  ELSE /\ ~(mode = "visual" /\ selectionStart = selectionEnd)
       /\ ~(mode # "visual" /\ mode # "insert" /\ mode # "normal"
            /\ selectionStart = selectionEnd)

\* evaluation of the module prism-loader.js, once per page: the module-level
\* prismLoader and its loadPrism call
evaluateModule(pg) ==
  IF pg.module THEN pg
  ELSE loadPrism([pg EXCEPT !.module = TRUE, !.loaders = Append(@, PrismLoader)],
                 Len(pg.loaders) + 1)

\* a handleConvert call: what it read at its start (nothing is kept of a
\* call that returned for an empty text), the PrismLoader its
\* initializeSimulator made (0: none), where it stands, and the simulator
\* it validated and processed with
Convert(language, mode, selectionStart, selectionEnd, loader, state) ==
  [language |-> language, mode |-> mode, selectionStart |-> selectionStart,
   selectionEnd |-> selectionEnd, loader |-> loader, state |-> state,
   used |-> NoSimulator]

\* handleConvert from validateModeInput on: alert the errors, or processCode
\* and displayResults
validateAndProcess(pg, c) ==
  LET conv == pg.converts[c]
  IN [pg EXCEPT !.converts[c].used = pg.handler.neovimSimulator,
                !.converts[c].state =
                   IF validateModeInput(conv.mode, conv.selectionStart, conv.selectionEnd)
                   THEN "displayed" ELSE "invalid"]

\* initializeSimulator after createHighlighter's promise resolved: the
\* factory's highlighter (its constructor runs ensurePrismLoaded) and the
\* new simulator; then handleConvert's statement after the await
simulatorInitialized_KeepsExisting(pg, c) ==
  LET conv == pg.converts[c]
      highlighter == [language |-> conv.language, by |-> c,
                      useFallback |-> Integration_ensurePrismLoaded(pg.Prism,
                                        conv.language \in pg.languages)]
  IN [pg EXCEPT !.handler.neovimSimulator =
                    IF @ = NoSimulator THEN highlighter ELSE @,
                !.handler.currentLanguage = conv.language]
simulatorInitialized(pg, c) ==
  LET conv == pg.converts[c]
      highlighter == [language |-> conv.language, by |-> c,
                      useFallback |-> Integration_ensurePrismLoaded(pg.Prism,
                                        conv.language \in pg.languages)]
  IN [pg EXCEPT !.handler.neovimSimulator = highlighter,
                !.handler.currentLanguage = conv.language]

\* a handleConvert call waiting in initializeSimulator goes on once the
\* promise of its loader's loadPrism is settled: on to validation when it
\* resolved, into the catch of initializeSimulator (which rethrows) and the
\* catch of handleConvert (which alerts) when it rejected
continueConvert(pg, c) ==
  LET conv == pg.converts[c]
      promise == pg.promises[pg.loaders[conv.loader].loadPromise]
  IN IF conv.state # "initializing" \/ promise = "pending" THEN pg
     ELSE IF promise = "rejected" THEN [pg EXCEPT !.converts[c].state = "error"]
     ELSE validateAndProcess(simulatorInitialized(pg, c), c)

\* initializeSimulator up to its first wait: the import of prism-loader.js,
\* new PrismLoader(), createHighlighter's loadPrism
initializeSimulator(pg, c) ==
  LET imported == evaluateModule(pg)
      l == Len(imported.loaders) + 1
  IN continueConvert(
       loadPrism([imported EXCEPT !.loaders = Append(@, PrismLoader),
                                  !.converts[c].loader = l], l), c)

\* handleConvert: a click on the convert button
handleConvert(pg, sourceCode, language, mode, selectionStart, selectionEnd) ==
  LET c == Len(pg.converts) + 1
      called(state) == [pg EXCEPT !.converts = Append(@,
                          Convert(language, mode, selectionStart, selectionEnd, 0, state))]
      returned == [pg EXCEPT !.converts = Append(@, Convert("", "", 0, 0, 0, "empty"))]
  IN IF trim(sourceCode) = << >> THEN returned
     ELSE IF pg.handler.neovimSimulator = NoSimulator
             \/ pg.handler.currentLanguage # language
          THEN initializeSimulator(called("initializing"), c)
          ELSE validateAndProcess(called("validating"), c)

\* the promise reactions after an element's event: every waiting
\* handleConvert call from the c-th on whose promise was settled goes on
RECURSIVE settled(_, _)
settled(pg, c) ==
  IF c > Len(pg.converts) THEN pg ELSE settled(continueConvert(pg, c), c + 1)

(***************************************************************************)
(* One PrismLoader as a machine: loadPrism calls by its users, and the     *)
(* load and error events of the elements it appended.                      *)
(***************************************************************************)
LoaderInit ==
  /\ pc = "ready"
  /\ code = << >> /\ before = << >> /\ tokens = << >> /\ result = << >> /\ op = NoOp
  /\ prism = NoPrism /\ vimTokens = << >> /\ rendered = << >> /\ heap = << >>
  /\ \E defined \in BOOLEAN, plugins \in BOOLEAN :
       page = [Page(defined, plugins, LoaderLanguages) EXCEPT !.loaders = <<PrismLoader>>]

\* a user of the loader calls loadPrism()
LoadPrism ==
  /\ Len(page.calls) < MaxLoadCalls
  /\ page' = loadPrism(page, 1)
  /\ UNCHANGED <<pc, code, before, tokens, result, op, prism, vimTokens, rendered, heap>>

\* an appended element fires its load event
ElementLoad ==
  /\ \E e \in 1..Len(page.head) :
       /\ page.head[e].state = "pending"
       /\ page' = settled(fire(page, e, "load"), 1)
  /\ UNCHANGED <<pc, code, before, tokens, result, op, prism, vimTokens, rendered, heap>>

\* an appended element fires its error event
ElementError ==
  /\ \E e \in 1..Len(page.head) :
       /\ page.head[e].state = "pending"
       /\ page' = settled(fire(page, e, "error"), 1)
  /\ UNCHANGED <<pc, code, before, tokens, result, op, prism, vimTokens, rendered, heap>>

LoaderNext == LoadPrism \/ ElementLoad \/ ElementError

SpecLoader == LoaderInit /\ [][LoaderNext]_vars

\* every appended element eventually fires its load or its error event
SpecLoaderFair == SpecLoader /\ WF_vars(ElementLoad \/ ElementError)

(***************************************************************************)
(* The page as a machine: the module-level prismLoader, the convert        *)
(* button's clicks, each with the PrismLoader its initializeSimulator      *)
(* makes, and the load and error events of the appended elements.  The     *)
(* loader is the one the handler imports (prism-loader.js, no plugins).    *)
(***************************************************************************)
\* the source texts of a convert request: only white space, or a character
ConvertSources == {<<"\n">>, <<"a">>}
\* the modes of a convert request: normal mode, the selection being empty
ConvertModes == {"normal"}

PageInit ==
  /\ pc = "ready"
  /\ code = << >> /\ before = << >> /\ tokens = << >> /\ result = << >> /\ op = NoOp
  /\ prism = NoPrism /\ vimTokens = << >> /\ rendered = << >> /\ heap = << >>
  /\ \E defined \in BOOLEAN : page = Page(defined, FALSE, PageLoaderLanguages)

\* the page itself includes prism-loader.js: the module is evaluated and its
\* prismLoader auto-loads, at once or on DOMContentLoaded
DomReady ==
  /\ ~page.module
  /\ page' = evaluateModule(page)
  /\ UNCHANGED <<pc, code, before, tokens, result, op, prism, vimTokens, rendered, heap>>

\* a click on the convert button
HandleConvert ==
  /\ Len(page.converts) < MaxConverts
  /\ \E sourceCode \in ConvertSources, language \in HandlerLanguages, mode \in ConvertModes :
       page' = handleConvert(page, sourceCode, language, mode, 0, 0)
  /\ UNCHANGED <<pc, code, before, tokens, result, op, prism, vimTokens, rendered, heap>>

PageNext == DomReady \/ HandleConvert \/ ElementLoad \/ ElementError

SpecPage == PageInit /\ [][PageNext]_vars

\* C28: the normal-mode output of processCode has no span styled
\* cursor-insert, for every position from 0 to the length of the text
\* (at the length a zero-width cursor token is synthesized).
C28_NormalModeNoInsertCursor ==
  (/\ pc = "done" /\ op.name = "processCode" /\ op.mode = "normal"
   /\ 0 <= op.selectionStart /\ op.selectionStart <= Len(code))
    => styledSpans(rendered, "cursor-insert") = {}

(***************************************************************************)
(* The highlighter's construction as a machine: new PrismVimHighlighter    *)
(* (language) of part_004 or of prism-vim-integration.js on a page where   *)
(* the Prism global may be missing or lack grammars, then one tokenize.    *)
(***************************************************************************)
\* the languages asked for, and the names Prism.languages may hold
RequestedLanguages == {"javascript", "html", "python"}
GrammarNames == {"javascript", "markup"}

NoHighlighter ==
  [requested |-> "", language |-> "", useFallback |-> FALSE, from |-> "", calledTokenizer |-> FALSE]

\* ensurePrismLoaded's lookup: Prism.languages[this.language], and for html
\* Prism.languages.markup
grammarFound(language, pg) ==
  pg.Prism /\ (language \in pg.languages \/ (language = "html" /\ "markup" \in pg.languages))

\* this.language after ensurePrismLoaded: markup in place of a missing html
languageAfter(language, pg) ==
  IF pg.Prism /\ language \notin pg.languages /\ language = "html" /\ "markup" \in pg.languages
  THEN "markup" ELSE language

\* new PrismVimHighlighter(language) of part_004
PrismVimHighlighter(language, pg) ==
  [requested |-> language, language |-> languageAfter(language, pg),
   useFallback |-> ensurePrismLoaded(pg.Prism, grammarFound(language, pg)),
   from |-> "part_004", calledTokenizer |-> FALSE]

\* new PrismVimHighlighter(language) of prism-vim-integration.js
Integration_PrismVimHighlighter(language, pg) ==
  [requested |-> language, language |-> languageAfter(language, pg),
   useFallback |-> Integration_ensurePrismLoaded(pg.Prism, grammarFound(language, pg)),
   from |-> "integration", calledTokenizer |-> FALSE]

\* the tokenizer as tokenize finds it: Prism.tokenize(code, grammar) throws
\* without the global or without a grammar under this.language, and
\* otherwise returns the text as one string
tokenizerFor(h, pg, c) ==
  [defined |-> pg.Prism, grammar |-> pg.Prism /\ h.language \in pg.languages,
   useFallback |-> h.useFallback,
   throws |-> ~(pg.Prism /\ h.language \in pg.languages),
   out |-> IF c = << >> THEN << >> ELSE <<StringLeaf(c)>>]

HighlighterInit ==
  /\ pc = "ready"
  /\ code \in Texts(MaxCode)
  /\ before = << >> /\ tokens = << >> /\ result = << >> /\ op = NoOp
  /\ prism = NoPrism /\ vimTokens = << >> /\ rendered = << >> /\ heap = << >>
  /\ \/ page = [Prism |-> FALSE, languages |-> {}, highlighter |-> NoHighlighter]
     \/ \E languages \in SUBSET GrammarNames :
          page = [Prism |-> TRUE, languages |-> languages, highlighter |-> NoHighlighter]

\* new PrismVimHighlighter(language), part_004
Construct ==
  /\ pc = "ready"
  /\ \E language \in RequestedLanguages :
       page' = [page EXCEPT !.highlighter = PrismVimHighlighter(language, page)]
  /\ pc' = "constructed"
  /\ UNCHANGED <<code, before, tokens, result, op, prism, vimTokens, rendered, heap>>

\* new PrismVimHighlighter(language), prism-vim-integration.js
IntegrationConstruct ==
  /\ pc = "ready"
  /\ \E language \in RequestedLanguages :
       page' = [page EXCEPT !.highlighter = Integration_PrismVimHighlighter(language, page)]
  /\ pc' = "constructed"
  /\ UNCHANGED <<code, before, tokens, result, op, prism, vimTokens, rendered, heap>>

\* highlighter.tokenize(code)
HighlighterTokenize ==
  /\ pc = "constructed"
  /\ \E p \in {tokenizerFor(page.highlighter, page, code)} :
       /\ prism' = p
       /\ vimTokens' = IF page.highlighter.from = "part_004" THEN tokenize(code, p)
                       ELSE Integration_tokenize(code, p)
  /\ page' = [page EXCEPT !.highlighter.calledTokenizer = ~page.highlighter.useFallback]
  /\ op' = [NoOp EXCEPT !.name = "tokenize"]
  /\ pc' = "done"
  /\ UNCHANGED <<code, before, tokens, result, rendered, heap>>

HighlighterNext == Construct \/ IntegrationConstruct \/ HighlighterTokenize

SpecHighlighter == HighlighterInit /\ [][HighlighterNext]_vars

\* C29: a constructed PrismVimHighlighter has useFallback true whenever the
\* Prism global is undefined or holds no grammar for the requested language
\* (nor, for html, one under markup), and then tokenize does not call the
\* tokenizer; useFallback is false only when a grammar exists under the
\* highlighter's (possibly substituted) language.
C29_FallbackWithoutGrammar ==
  pc \in {"constructed", "done"} =>
    LET h == page.highlighter
    IN /\ (\/ ~page.Prism
           \/ /\ h.requested \notin page.languages
              /\ ~(h.requested = "html" /\ "markup" \in page.languages))
            => /\ h.useFallback
               /\ ~h.calledTokenizer
       /\ ~h.useFallback => (page.Prism /\ h.language \in page.languages)

(***************************************************************************)
(* Rainbow brackets: tokenize of prism-vim-integration.js on a text whose  *)
(* brackets the tokenizer returned as punctuation tokens of their own.     *)
(***************************************************************************)
\* tokens the tokenizer returns for one text
MaxBrackets == 3

\* a punctuation token holding one bracket, or the plain string "a"
BracketNodes ==
  {TextNode("punctuation", <<b>>) : b \in openBrackets \cup closeBrackets}
    \cup {StringLeaf(<<"a">>)}

BracketInit ==
  /\ pc = "ready"
  /\ \E out \in TextsOver(BracketNodes, MaxBrackets) :
       /\ prism = PrismEnv(TRUE, TRUE, FALSE, out)
       /\ code = flattenAll(out)
  /\ vimTokens = << >>
  /\ before = << >> /\ tokens = << >> /\ result = << >> /\ op = NoOp
  /\ rendered = << >> /\ heap = << >> /\ page = NoPage

BracketNext == IntegrationTokenize

SpecBrackets == BracketInit /\ [][BracketNext]_vars

\* the class list a token's bracket carries: that of its span, or its own
rainbowClasses(token) ==
  IF token.originalHTML # << >> THEN token.originalHTML[1].classes ELSE token.cssClasses

\* whether token n is a punctuation token holding one bracket of the set
bracketIn(toks, n, brackets) ==
  /\ toks[n].type = "punctuation" /\ Len(toks[n].content) = 1
  /\ toks[n].content[1] \in brackets

\* the opening brackets still unmatched after the first n tokens: an opening
\* bracket is put on top, a closing bracket takes its partner off the top
RECURSIVE unmatched(_, _)
unmatched(toks, n) ==
  IF n = 0 THEN << >>
  ELSE LET earlier == unmatched(toks, n - 1)
       IN IF bracketIn(toks, n, openBrackets) THEN Append(earlier, toks[n].content[1])
          ELSE IF /\ bracketIn(toks, n, closeBrackets) /\ earlier # << >>
                  /\ bracketPairs(earlier[Len(earlier)]) = toks[n].content[1]
          THEN SubSeq(earlier, 1, Len(earlier) - 1)
          ELSE earlier

\* the numbers k for which the class list holds brace-level-k
braceLevels(classes) ==
  {k \in 0..(12 + MaxBrackets) :
     \E c \in 1..Len(classes) : classes[c] = "brace-level-" \o ToString(k)}

\* C30: after tokenize, an opening bracket that is its own punctuation token
\* and has d - 1 unmatched opening brackets before it carries brace-level-k
\* with k = ((d - 1) mod 12) + 1 and no other level; a closing bracket that
\* matches the last unmatched opening bracket carries that bracket's k; and
\* every level carried lies in 1..12.
C30_RainbowLevels ==
  (pc = "done" /\ op.name = "Integration.tokenize") =>
    \A n \in 1..Len(vimTokens) :
      LET open == unmatched(vimTokens, n - 1)
          levels == braceLevels(rainbowClasses(vimTokens[n]))
      IN /\ bracketIn(vimTokens, n, openBrackets) => levels = {(Len(open) % 12) + 1}
         /\ (/\ bracketIn(vimTokens, n, closeBrackets) /\ open # << >>
             /\ bracketPairs(open[Len(open)]) = vimTokens[n].content[1])
              => levels = {((Len(open) - 1) % 12) + 1}
         /\ levels \subseteq 1..12

(***************************************************************************)
(* Properties of the loader and of the page                                *)
(***************************************************************************)
\* no element of the page has fired its error event
noLoadFailed(pg) == \A e \in 1..Len(pg.head) : pg.head[e].state # "error"

C24_ResolvesDespiteComponentFailures ==
  /\ [](Cardinality({p \in 1..Len(page.promises) : page.promises[p] = "rejected"})
          = Cardinality({e \in 1..Len(page.head) :
                           page.head[e].tag = "core" /\ page.head[e].state = "error"}))
  /\ \A p \in 1..MaxLoadCalls :
       (/\ p <= Len(page.promises) /\ page.promises[p] = "pending"
        /\ \E e \in 1..Len(page.head) : page.head[e].tag = "core" /\ page.head[e].state = "load")
         ~> (p <= Len(page.promises) /\ page.promises[p] = "true")

\* a load that resolved with true after its core script loaded although a
\* language script and the stylesheet failed
C24_Witness ==
  /\ \E p \in 1..Len(page.promises) : page.promises[p] = "true"
  /\ \E e \in 1..Len(page.head) : page.head[e].tag = "core" /\ page.head[e].state = "load"
  /\ \E e \in 1..Len(page.head) : page.head[e].tag = "language" /\ page.head[e].state = "error"
  /\ \E e \in 1..Len(page.head) : page.head[e].tag = "css" /\ page.head[e].state = "error"

\* C25: the step in which the core script fires its error event leaves the
\* promise loadPrism returned rejected, loaded false and loading false; a
\* loadPrism call made while loadPromise holds a rejected promise starts a
\* new attempt (a new pending promise, one more _loadPrismCore) instead of
\* returning the rejected one; and loaded and loading are never both true.
C25_CoreFailureAllowsRetry ==
  /\ [](~(page.loaders[1].loaded /\ page.loaders[1].loading))
  /\ [][LET ld == page.loaders[1]
            after == page'.loaders[1]
        IN /\ (\E e \in 1..Len(page.head) :
                 /\ page.head[e].tag = "core" /\ page.head[e].state = "pending"
                 /\ page'.head[e].state = "error")
                => /\ page'.promises[ld.loadPromise] = "rejected"
                   /\ ~after.loaded /\ ~after.loading
           /\ (/\ Len(page'.calls) = Len(page.calls) + 1
               /\ ld.loadPromise # 0 /\ page.promises[ld.loadPromise] = "rejected")
                => LET call == page'.calls[Len(page'.calls)]
                   IN /\ call.started /\ call.returned = "promise"
                      /\ call.promise # ld.loadPromise
                      /\ page'.promises[call.promise] = "pending"
                      /\ after.loading /\ after.coreStarts = ld.coreStarts + 1]_vars

\* a loader whose first attempt was rejected for its core script and whose
\* second attempt, started by a later call, succeeded
C25_Witness ==
  /\ Len(page.promises) = 2 /\ page.promises[1] = "rejected" /\ page.promises[2] = "true"
  /\ page.loaders[1].loaded /\ ~page.loaders[1].loading
  /\ page.head[1].tag = "core" /\ page.head[1].state = "error"

\* the core script that the PrismLoader of convert request c appended has
\* fired its error event
coreFailedFor(pg, c) ==
  \E e \in 1..Len(pg.head) :
    /\ pg.head[e].tag = "core" /\ pg.head[e].state = "error"
    /\ pg.head[e].loader = pg.converts[c].loader

\* C23: a convert request whose tokenizer load failed (the core script its
\* loader appended fired onerror) still ends with rendered output, made by a
\* simulator whose highlighter uses the whole-text fallback.
C23_FailedLoadStillRenders ==
  \A c \in 1..Len(page.converts) :
    coreFailedFor(page, c)
      => /\ page.converts[c].state = "displayed"
         /\ page.converts[c].used # NoSimulator
         /\ page.converts[c].used.useFallback

C27_CoreScriptAppendedOnce ==
  Cardinality({e \in 1..Len(page.head) : page.head[e].tag = "core"}) <= 1

====
